---- MODULE Spec2Model ----
(***************************************************************************)
(* Model of the Neo4j knowledge-graph MCP server: the credential           *)
(* validators (OAuthProvider, DescopeAuthProvider, ApiKeyProvider, the     *)
(* API-key registry server), the scope gate, the ten tools of              *)
(* Neo4jMCPServer and the Cypher statements of Neo4jClient.                *)
(***************************************************************************)
EXTENDS Integers, Sequences, FiniteSets, TLC

VARIABLES
    variant,    \* which server class this deployment runs
    nodes,      \* the nodes of the Neo4j store
    rels,       \* the relationships of the Neo4j store
    last,       \* the last tool call and its response
    gate,       \* the last scope check: provider, session scopes, required, granted
    authn,      \* the last authenticateRequest: provider, headers, outcome
    validApiKeys, \* Neo4jMCPServerWithApiKey.validApiKeys: key -> permissions
    resolved,   \* the last extractPermissions: the identity and the permissions returned
    inflight,   \* the store calls that have started and not yet ended, by caller
    sessions,    \* the driver sessions that are open, by the caller that opened them
    now,        \* Date.now(), in minutes
    oauthStates,\* DescopeAuthProvider.oauthStates: the OAuth states waiting for their code
    issued,     \* how many OAuth states initiateOAuthFlow has generated
    flows,      \* each caller's completeOAuthFlow call: its position and its outcome
    exchanged,  \* the OAuth states a code exchange was sent for, with the state's verifier
    generated,  \* how many keys generateApiKey has returned since the constructor
    removed     \* the keys for which removeApiKey has returned true

\* the state of the OAuth flows of DescopeAuthProvider
oauthFlow == <<now, oauthStates, issued, flows, exchanged>>

\* the key generator of Neo4jMCPServerWithApiKey and the history of its removals
keyHistory == <<generated, removed>>

vars == <<variant, nodes, rels, last, gate, authn, validApiKeys, resolved, inflight, sessions,
          oauthFlow, keyHistory>>

NONE == "<none>"

Range(s) == {s[i] : i \in DOMAIN s}

\* Array.prototype.includes
Includes(arr, x) == \E i \in DOMAIN arr : arr[i] = x

SeqsUpTo(S, n) == UNION {[1..k -> S] : k \in 0..n}

(***************************************************************************)
(* The scope gate                                                          *)
(***************************************************************************)

\* the scope strings of Neo4jMCPServer (server.ts) and the MCPScopes enum
OAuthScopes == {"read", "write", "admin"}
MCPScopes == {"mcp:read", "mcp:write", "mcp:admin"}

MaxScopes == 2

\* what a session's scope array may hold in the model
ScopeAlphabet == OAuthScopes \cup MCPScopes \cup {"mcp:health"}
ScopeLists == SeqsUpTo(ScopeAlphabet, MaxScopes)

hasScopeNoAdmin(scopes, requiredScope) == Includes(scopes, requiredScope)

\* OAuthProvider.hasScope
hasScope(scopes, requiredScope) ==
    Includes(scopes, requiredScope) \/ Includes(scopes, "admin")

\* DescopeAuthProvider.hasPermission
descopeHasPermission(permissions, permission) ==
    Includes(permissions, permission) \/ Includes(permissions, "mcp:admin")

\* Neo4jMCPServerWithApiKey.hasPermission
apiKeyHasPermission(permissions, permission) ==
    Includes(permissions, permission) \/ Includes(permissions, "mcp:admin")

GateProviders == {"OAuthProvider", "DescopeAuthProvider", "Neo4jMCPServerWithApiKey"}

\* the name of the admin scope in each provider
AdminScopeOf(provider) == IF provider = "OAuthProvider" THEN "admin" ELSE "mcp:admin"

\* the names of read, write and admin in each provider
RequiredScopesOf(provider) == IF provider = "OAuthProvider" THEN OAuthScopes ELSE MCPScopes

NoGate == [provider |-> NONE, scopes |-> <<>>, required |-> NONE, granted |-> FALSE]

OAuthHasScope(scopes, required) ==
    /\ gate' = [provider |-> "OAuthProvider", scopes |-> scopes, required |-> required,
                granted |-> hasScope(scopes, required)]
    /\ UNCHANGED <<keyHistory, oauthFlow, variant, nodes, rels, last, authn, validApiKeys, resolved, inflight, sessions>>

DescopeHasPermission(scopes, required) ==
    /\ gate' = [provider |-> "DescopeAuthProvider", scopes |-> scopes, required |-> required,
                granted |-> descopeHasPermission(scopes, required)]
    /\ UNCHANGED <<keyHistory, oauthFlow, variant, nodes, rels, last, authn, validApiKeys, resolved, inflight, sessions>>

ApiKeyHasPermission(scopes, required) ==
    /\ gate' = [provider |-> "Neo4jMCPServerWithApiKey", scopes |-> scopes, required |-> required,
                granted |-> apiKeyHasPermission(scopes, required)]
    /\ UNCHANGED <<keyHistory, oauthFlow, variant, nodes, rels, last, authn, validApiKeys, resolved, inflight, sessions>>

(***************************************************************************)
(* Credential validation                                                   *)
(***************************************************************************)

RAW == "<raw>"

\* credential strings a request may carry
Creds == {"", "jwt_rw", "jwt_bad", "key_k", "key_x"}

\* the Authorization header: absent (scheme NONE), "Bearer <cred>", "Basic <cred>",
\* or a bare "<cred>" (scheme RAW)
AuthorizationValues ==
    {[scheme |-> NONE, cred |-> ""]} \cup [scheme : {"Bearer", "Basic", RAW}, cred : Creds]
ApiKeyValues == {NONE} \cup Creds
Headers == [authorization : AuthorizationValues, xApiKey : ApiKeyValues]

\* authHeader?.startsWith('Bearer ')
StartsWithBearer(a) == a.scheme = "Bearer"

\* a header value that is undefined or the empty string is falsy
Falsy(v) == v = NONE \/ v = ""
HeaderFalsy(a) == a.scheme = NONE \/ (a.scheme = RAW /\ a.cred = "")

\* the external verifiers: Descope's validateSession and exchangeAccessKey
ValidSessionTokens == {"jwt_rw"}
ValidAccessKeys == {"key_k"}
\* process.env.MCP_SERVER_API_KEY
ConfiguredApiKey == "key_k"

AuthResult(provider, h, status, message, method, validator, validated) ==
    [provider |-> provider, headers |-> h, status |-> status, message |-> message,
     method |-> method, validator |-> validator, validated |-> validated]

NoAuthn == AuthResult(NONE, [authorization |-> [scheme |-> NONE, cred |-> ""], xApiKey |-> NONE],
                      0, "", NONE, NONE, NONE)

descopeAuthenticateRequestKeyFirst(h) ==
    IF ~Falsy(h.xApiKey)
    THEN IF h.xApiKey \in ValidAccessKeys
         THEN AuthResult("DescopeAuthProvider", h, 200, "", "api_key", "exchangeAccessKey", h.xApiKey)
         ELSE AuthResult("DescopeAuthProvider", h, 401, "Authentication failed: Invalid API key",
                         NONE, "exchangeAccessKey", h.xApiKey)
    ELSE IF StartsWithBearer(h.authorization)
    THEN IF h.authorization.cred \in ValidSessionTokens
         THEN AuthResult("DescopeAuthProvider", h, 200, "", "oauth", "validateSession", h.authorization.cred)
         ELSE AuthResult("DescopeAuthProvider", h, 401, "Authentication failed: Session validation failed",
                         NONE, "validateSession", h.authorization.cred)
    ELSE AuthResult("DescopeAuthProvider", h, 401, "Authentication required", NONE, NONE, NONE)

\* DescopeAuthProvider.authenticateRequest
descopeAuthenticateRequest(h) ==
    IF StartsWithBearer(h.authorization)
    THEN LET token == h.authorization.cred IN
         IF token \in ValidSessionTokens
         THEN AuthResult("DescopeAuthProvider", h, 200, "", "oauth", "validateSession", token)
         ELSE AuthResult("DescopeAuthProvider", h, 401, "Authentication failed: Session validation failed",
                         NONE, "validateSession", token)
    ELSE IF Falsy(h.xApiKey)
    THEN AuthResult("DescopeAuthProvider", h, 401, "Authentication required", NONE, NONE, NONE)
    ELSE IF h.xApiKey \in ValidAccessKeys
    THEN AuthResult("DescopeAuthProvider", h, 200, "", "api_key", "exchangeAccessKey", h.xApiKey)
    ELSE AuthResult("DescopeAuthProvider", h, 401, "Authentication failed: Invalid API key",
                    NONE, "exchangeAccessKey", h.xApiKey)

\* ApiKeyProvider.authenticateRequest
apiKeyAuthenticateRequest(h) ==
    LET providedKey == IF ~Falsy(h.xApiKey) THEN h.xApiKey
                       ELSE IF StartsWithBearer(h.authorization) THEN h.authorization.cred
                       ELSE NONE
    IN  IF Falsy(providedKey)
        THEN AuthResult("ApiKeyProvider", h, 401, "Missing API key", NONE, NONE, NONE)
        ELSE IF providedKey # ConfiguredApiKey
        THEN AuthResult("ApiKeyProvider", h, 401, "Invalid API key", NONE, "compare", providedKey)
        ELSE AuthResult("ApiKeyProvider", h, 200, "", "api_key", "compare", providedKey)

DescopeAuthenticate(h) ==
    /\ authn' = descopeAuthenticateRequest(h)
    /\ UNCHANGED <<keyHistory, oauthFlow, variant, nodes, rels, last, gate, validApiKeys, resolved, inflight, sessions>>

ApiKeyAuthenticate(h) ==
    /\ authn' = apiKeyAuthenticateRequest(h)
    /\ UNCHANGED <<keyHistory, oauthFlow, variant, nodes, rels, last, gate, validApiKeys, resolved, inflight, sessions>>

(***************************************************************************)
(* DescopeAuthProvider.extractPermissions: the permissions of an identity  *)
(***************************************************************************)

\* String.prototype.toLowerCase on the role names of the model
toLowerCase(role) ==
    CASE role = "Admin"  -> "admin"
      [] role = "WRITER" -> "writer"
      [] OTHER           -> role

RolePermissionsWithAliases(role) ==
    CASE toLowerCase(role) \in {"admin"}           -> <<"mcp:admin">>
      [] toLowerCase(role) \in {"writer", "write"} -> <<"mcp:write", "mcp:read">>
      [] toLowerCase(role) \in {"reader", "read"}  -> <<"mcp:read">>
      [] OTHER                                     -> <<>>

\* the switch on role.toLowerCase(): what one role pushes
RolePermissions(role) ==
    CASE toLowerCase(role) = "admin"  -> <<"mcp:admin">>
      [] toLowerCase(role) = "writer" -> <<"mcp:write", "mcp:read">>
      [] toLowerCase(role) = "reader" -> <<"mcp:read">>
      [] OTHER                        -> <<>>

\* authInfo.token.roles.forEach(role => ...)
RECURSIVE RolesPermissions(_)
RolesPermissions(roles) ==
    IF roles = <<>> THEN <<>> ELSE RolePermissions(Head(roles)) \o RolesPermissions(Tail(roles))

\* [...new Set(permissions)]: the first occurrence of each element, in order
RECURSIVE Dedupe(_)
Dedupe(list) ==
    IF list = <<>> THEN <<>>
    ELSE LET front == Dedupe(SubSeq(list, 1, Len(list) - 1))
             x == list[Len(list)]
         IN  IF Includes(front, x) THEN front ELSE Append(front, x)

\* an optional array of the token: undefined, or the array
Undefined == [defined |-> FALSE, items |-> <<>>]
Array(items) == [defined |-> TRUE, items |-> items]

\* an optional array that is undefined pushes nothing
Given(field) == IF field.defined THEN field.items ELSE <<>>

\* Object.values(authInfo.token.tenants).forEach(tenant => ...)
RECURSIVE TenantsPermissions(_)
TenantsPermissions(tenants) ==
    IF tenants = <<>> THEN <<>>
    ELSE Given(Head(tenants).permissions) \o TenantsPermissions(Tail(tenants))

\* the three sources in the order the code pushes them
PushedPermissions(token) ==
    Given(token.permissions)
    \o RolesPermissions(Given(token.roles))
    \o TenantsPermissions(Given(token.tenants))

extractPermissionsNoDefault(token) == Dedupe(PushedPermissions(token))

\* DescopeAuthProvider.extractPermissions on authInfo.token
extractPermissions(token) ==
    LET permissions == PushedPermissions(token)
    IN  Dedupe(IF Len(permissions) = 0 THEN <<"mcp:read">> ELSE permissions)

NoResolution == [called |-> FALSE,
                 token |-> [permissions |-> Undefined, roles |-> Undefined, tenants |-> Undefined],
                 permissions |-> <<>>]

ExtractPermissions(token) ==
    /\ resolved' = [called |-> TRUE, token |-> token, permissions |-> extractPermissions(token)]
    /\ UNCHANGED <<keyHistory, oauthFlow, variant, nodes, rels, last, gate, authn, validApiKeys, inflight, sessions>>

(***************************************************************************)
(* The Neo4j store as Neo4jClient uses it.  A node is [id, labels, props], *)
(* a relationship [from, to, type, copy] (copy tells parallel              *)
(* relationships of one type between one pair of nodes apart).             *)
(***************************************************************************)

\* the label that  SET e:\`\${entity.type}\`  adds: the dollar sign and the backticks
\* are escaped in the template literal, so the statement text holds this name itself
TypeLabel == "${entity.type}"

\* the relationship type in  [r:\`\${relation.relationType}\`] : escaped the same way,
\* so every statement names this one type, whatever relationType the caller gave
RelTypeToken(relationType) == "${relation.relationType}"

\* SET e += map
Override(p, q) == [k \in DOMAIN p \cup DOMAIN q |-> IF k \in DOMAIN q THEN q[k] ELSE p[k]]

\* coalesce(e.observations, [])
CoalesceObservations(n) ==
    IF "observations" \in DOMAIN n.props THEN n.props.observations ELSE <<>>

\* MATCH (e:Label {name: name})
ByName(ns, label, name) ==
    {n \in ns : label \in n.labels /\ "name" \in DOMAIN n.props /\ n.props.name = name}

FreshId(ns) ==
    LET used == {n.id : n \in ns}
    IN  CHOOSE i \in 1..(Cardinality(ns) + 1) : i \notin used /\ \A j \in 1..(i - 1) : j \in used

\* the nodes of S in the order of their ids
RECURSIVE NodesInOrder(_)
NodesInOrder(S) ==
    IF S = {} THEN <<>>
    ELSE LET n == CHOOSE m \in S : \A o \in S : m.id <= o.id
         IN  <<n>> \o NodesInOrder(S \ {n})

CreateNode(ns, label, name) ==
    ns \cup {[id |-> FreshId(ns), labels |-> {label}, props |-> [name |-> name]]}

MergeNodeAlwaysCreates(ns, label, name) == CreateNode(ns, label, name)

\* MERGE (e:Label {name: name})
MergeNode(ns, label, name) ==
    IF ByName(ns, label, name) # {} THEN ns ELSE CreateNode(ns, label, name)

CreateRelationship(rs, f, t, ty) ==
    rs \cup {[from |-> f, to |-> t, type |-> ty,
              copy |-> 1 + Cardinality({r \in rs : r.from = f /\ r.to = t /\ r.type = ty})]}

\* MERGE (from)-[r:TYPE]->(to) for bound nodes from and to
MergeRelationship(rs, f, t, ty) ==
    IF \E r \in rs : r.from = f /\ r.to = t /\ r.type = ty THEN rs
    ELSE CreateRelationship(rs, f, t, ty)

\* what a client method did: the store afterwards, whether it returned or threw,
\* what it returned, the sessions it opened and the statements it ran
Effect(ns, rs, outcome, result, opened, statements) ==
    [nodes |-> ns, rels |-> rs, outcome |-> outcome, result |-> result,
     opened |-> opened, statements |-> statements]

\* the rows of  UNWIND $entities as entity MERGE (e:Memory {name: entity.name})
\*              SET e += entity, e.type = entity.type  SET e:`${entity.type}`
RECURSIVE CreateEntitiesRows(_, _, _)
CreateEntitiesRows(ns, entities, i) ==
    IF i > Len(entities) THEN ns
    ELSE LET entity == entities[i]
             merged == MergeNode(ns, "Memory", entity.name)
             bound  == {n.id : n \in ByName(merged, "Memory", entity.name)}
             set    == {IF n.id \in bound
                        THEN [n EXCEPT !.props = [Override(@, entity) EXCEPT !.type = entity.type],
                                       !.labels = @ \cup {TypeLabel}]
                        ELSE n : n \in merged}
         IN  CreateEntitiesRows(set, entities, i + 1)

\* Neo4jClient.createEntities: one statement, run by session.run in a transaction of
\* its own; failAt is the row on which the statement throws, and the transaction
\* then leaves nothing of the rows before it
createEntities(ns, rs, entities, failAt) ==
    IF failAt \in 1..Len(entities) THEN Effect(ns, rs, "failed", <<>>, 1, 1)
    ELSE Effect(CreateEntitiesRows(ns, entities, 1), rs, "ok", entities, 1, 1)

CreateRelationStatementOptionalTarget(ns, rs, relation) ==
    LET froms == {f.id : f \in ByName(ns, "Memory", relation.source)}
        tos   == {t.id : t \in ByName(ns, "Memory", relation.target)}
    IN  rs \cup UNION {MergeRelationship(rs, f, t, RelTypeToken(relation.relationType)) :
                          f \in froms, t \in IF tos = {} THEN froms ELSE tos}

\* MATCH (from:Memory {name: $source}), (to:Memory {name: $target})
\* MERGE (from)-[r:`${relation.relationType}`]->(to)
CreateRelationStatement(ns, rs, relation) ==
    LET pairs == {<<f.id, t.id>> : f \in ByName(ns, "Memory", relation.source),
                                   t \in ByName(ns, "Memory", relation.target)}
    IN  rs \cup UNION {MergeRelationship(rs, p[1], p[2], RelTypeToken(relation.relationType)) : p \in pairs}

RECURSIVE CreateRelationsLoop(_, _, _, _, _)
CreateRelationsLoop(ns, rs, relations, i, failAt) ==
    IF i > Len(relations) THEN Effect(ns, rs, "ok", relations, 1, Len(relations))
    ELSE IF i = failAt THEN Effect(ns, rs, "failed", <<>>, 1, i)
    ELSE CreateRelationsLoop(ns, CreateRelationStatement(ns, rs, relations[i]), relations, i + 1, failAt)

\* Neo4jClient.createRelations: one statement per relation; statement failAt throws
createRelations(ns, rs, relations, failAt) == CreateRelationsLoop(ns, rs, relations, 1, failAt)

\* [o in obs.contents WHERE NOT o IN coalesce(e.observations, [])]
NewObservations(n, contents) ==
    SelectSeq(contents, LAMBDA o : ~Includes(CoalesceObservations(n), o))

SetObservations(ns, id, obs) ==
    {IF n.id = id THEN [n EXCEPT !.props = Override(@, [observations |-> obs])] ELSE n : n \in ns}

NodeById(ns, id) == CHOOSE n \in ns : n.id = id

\* the matched nodes of one row, one after another: SET e.observations =
\* coalesce(e.observations, []) + new, and one result record per node.  `basis` is
\* the store that `new` was computed on.
RECURSIVE AddObservationsNodes(_, _, _, _, _)
AddObservationsNodes(ns, basis, ids, contents, records) ==
    IF ids = <<>> THEN [nodes |-> ns, records |-> records]
    ELSE LET id  == Head(ids)
             new == NewObservations(NodeById(basis, id), contents)
             cur == NodeById(ns, id)
         IN  AddObservationsNodes(SetObservations(ns, id, CoalesceObservations(cur) \o new),
                                  basis, Tail(ids), contents,
                                  Append(records, [entityName |-> cur.props.name,
                                                   addedObservations |-> new]))

\* the rows of  UNWIND $observations as obs MATCH (e:Memory {name: obs.entityName})
\*              WITH e, [...] as new  SET e.observations = ... + new  RETURN e.name, new
\* Whether the WITH of a later row sees the SET of an earlier one is the planner's
\* choice (an Eager operator between them or none): eager = TRUE computes every
\* row's `new` on the store as it was before the statement.
RECURSIVE AddObservationsRows(_, _, _, _, _, _)
AddObservationsRows(ns, ns0, observations, i, eager, records) ==
    IF i > Len(observations) THEN [nodes |-> ns, records |-> records]
    ELSE LET obs  == observations[i]
             ids  == [k \in DOMAIN NodesInOrder(ByName(ns, "Memory", obs.entityName)) |->
                         NodesInOrder(ByName(ns, "Memory", obs.entityName))[k].id]
             done == AddObservationsNodes(ns, IF eager THEN ns0 ELSE ns, ids, obs.contents, records)
         IN  AddObservationsRows(done.nodes, ns0, observations, i + 1, eager, done.records)

\* Neo4jClient.addObservations
addObservations(ns, rs, observations, eager, failAt) ==
    IF failAt = 1 THEN Effect(ns, rs, "failed", <<>>, 1, 1)
    ELSE LET done == AddObservationsRows(ns, ns, observations, 1, eager, <<>>)
         IN  Effect(done.nodes, rs, "ok", done.records, 1, 1)

\* UNWIND $entities as name MATCH (e:Memory {name: name}) DETACH DELETE e
DetachDelete(ns, rs, entityNames) ==
    LET gone == UNION {ByName(ns, "Memory", entityNames[i]) : i \in DOMAIN entityNames}
        ids  == {n.id : n \in gone}
    IN  [nodes |-> ns \ gone, rels |-> {r \in rs : r.from \notin ids /\ r.to \notin ids}]

\* Neo4jClient.deleteEntities
deleteEntities(ns, rs, entityNames, failAt) ==
    IF failAt = 1 THEN Effect(ns, rs, "failed", <<>>, 1, 1)
    ELSE LET g == DetachDelete(ns, rs, entityNames)
         IN  Effect(g.nodes, g.rels, "ok", <<>>, 1, 1)

\* the rows of  UNWIND $deletions as d MATCH (e:Memory {name: d.entityName})
\*   SET e.observations = [o in coalesce(e.observations, []) WHERE NOT o IN d.observations]
RECURSIVE DeleteObservationsRows(_, _, _)
DeleteObservationsRows(ns, deletions, i) ==
    IF i > Len(deletions) THEN ns
    ELSE LET d     == deletions[i]
             bound == {n.id : n \in ByName(ns, "Memory", d.entityName)}
             set   == {IF n.id \in bound
                       THEN [n EXCEPT !.props = Override(@, [observations |->
                                 SelectSeq(CoalesceObservations(n),
                                           LAMBDA o : ~Includes(d.observations, o))])]
                       ELSE n : n \in ns}
         IN  DeleteObservationsRows(set, deletions, i + 1)

\* Neo4jClient.deleteObservations
deleteObservations(ns, rs, deletions, failAt) ==
    IF failAt = 1 THEN Effect(ns, rs, "failed", <<>>, 1, 1)
    ELSE Effect(DeleteObservationsRows(ns, deletions, 1), rs, "ok", <<>>, 1, 1)

DeleteRelationStatementUndirected(ns, rs, relation) ==
    LET froms == {n.id : n \in ByName(ns, "Memory", relation.source)}
        tos   == {n.id : n \in ByName(ns, "Memory", relation.target)}
    IN  {r \in rs : ~(/\ \/ r.from \in froms /\ r.to \in tos
                         \/ r.from \in tos /\ r.to \in froms
                      /\ r.type = RelTypeToken(relation.relationType))}

\* MATCH (source:Memory {name: $source})-[r:`${relation.relationType}`]->
\*       (target:Memory {name: $target}) DELETE r
DeleteRelationStatement(ns, rs, relation) ==
    LET froms == {n.id : n \in ByName(ns, "Memory", relation.source)}
        tos   == {n.id : n \in ByName(ns, "Memory", relation.target)}
    IN  {r \in rs : ~(r.from \in froms /\ r.to \in tos
                      /\ r.type = RelTypeToken(relation.relationType))}

RECURSIVE DeleteRelationsLoop(_, _, _, _, _)
DeleteRelationsLoop(ns, rs, relations, i, failAt) ==
    IF i > Len(relations) THEN Effect(ns, rs, "ok", <<>>, 1, Len(relations))
    ELSE IF i = failAt THEN Effect(ns, rs, "failed", <<>>, 1, i)
    ELSE DeleteRelationsLoop(ns, DeleteRelationStatement(ns, rs, relations[i]), relations, i + 1, failAt)

\* Neo4jClient.deleteRelations: one statement per relation; statement failAt throws
deleteRelations(ns, rs, relations, failAt) == DeleteRelationsLoop(ns, rs, relations, 1, failAt)

(***************************************************************************)
(* Reads: the full-text index `search` on Memory(name, type, observations) *)
(***************************************************************************)

\* the index's analyzer on the strings of the model: it splits a text into words
\* and lower-cases them
Analyze(text) ==
    CASE text = "a b" -> {"a", "b"}
      [] text = "T"   -> {"t"}
      [] text = "U"   -> {"u"}
      [] OTHER        -> {text}

\* the words the index holds for a node under one of its three properties
FieldTokens(n, field) ==
    IF field \notin DOMAIN n.props THEN {}
    ELSE IF field = "observations"
    THEN UNION {Analyze(n.props.observations[i]) : i \in DOMAIN n.props.observations}
    ELSE Analyze(n.props[field])

IndexedFields == {"name", "type", "observations"}

\* a query is [field, terms]: field "*" with terms {"*"} is the match-all filter '*',
\* field "name" is  name:(...) , field NONE searches the three properties
MatchAll == [field |-> "*", terms |-> {"*"}]

\* CALL db.index.fulltext.queryNodes('search', $filter)
QueryNodes(ns, q) ==
    {n \in ns : /\ "Memory" \in n.labels
                /\ IF q = MatchAll THEN \E f \in IndexedFields : FieldTokens(n, f) # {}
                   ELSE IF q.field = NONE
                   THEN \E f \in IndexedFields : FieldTokens(n, f) \cap q.terms # {}
                   ELSE FieldTokens(n, q.field) \cap q.terms # {}}

\* Neo4jClient.loadGraph: the matched nodes and every relationship touching one of them
loadGraph(ns, rs, q, failAt) ==
    IF failAt = 1 THEN Effect(ns, rs, "failed", <<>>, 1, 1)
    ELSE LET matched == QueryNodes(ns, q)
             ids     == {n.id : n \in matched}
             touching == {r \in rs : r.from \in ids \/ r.to \in ids}
         IN  Effect(ns, rs, "ok",
                    [entities  |-> {[name |-> n.props.name, type |-> n.props.type,
                                     observations |-> CoalesceObservations(n)] : n \in matched},
                     relations |-> {[source |-> NodeById(ns, r.from).props.name,
                                     target |-> NodeById(ns, r.to).props.name,
                                     relationType |-> r.type] : r \in touching}],
                    1, 1)

\* Neo4jClient.searchNodes
searchNodes(ns, rs, query, failAt) ==
    loadGraph(ns, rs, [field |-> NONE, terms |-> Analyze(query)], failAt)

\* Neo4jClient.findNodes: the filter  name:(n1 n2 ...)
findNodes(ns, rs, names, failAt) ==
    loadGraph(ns, rs, [field |-> "name", terms |-> UNION {Analyze(names[i]) : i \in DOMAIN names}],
              failAt)

\* Neo4jClient.verifyConnection: driver.verifyConnectivity() caught; no session, no statement
verifyConnectionThrows(ns, rs, reachable) ==
    Effect(ns, rs, IF reachable THEN "ok" ELSE "failed", reachable, 0, 0)

verifyConnection(ns, rs, reachable) == Effect(ns, rs, "ok", reachable, 0, 0)

(***************************************************************************)
(* Neo4jMCPServer (server.ts): OAuthProvider.authenticateRequest, argument *)
(* validation by the tool's schema, the scope check, the client call       *)
(***************************************************************************)

\* a JSON web token as jwt.verify sees it: form "ok" verifies, "malformed" and
\* "badsig" do not; "null" is no token at all
Jwt(form, expired, scopes) == [form |-> form, expired |-> expired, scopes |-> scopes]
NullToken == Jwt("null", FALSE, <<>>)
Absent == [scheme |-> NONE, cred |-> NullToken]

\* OAuthProvider.extractTokenFromRequest: /^Bearer\s+(.+)$/i, else the whole header
extractTokenFromRequest(a) ==
    IF a.scheme = NONE THEN NullToken
    ELSE IF a.scheme = "Bearer" /\ a.cred.form # "null" THEN a.cred
    ELSE IF a.scheme = RAW THEN a.cred
    ELSE Jwt("malformed", FALSE, <<>>)

NoSession == [present |-> FALSE, scopes |-> <<>>]

\* OAuthProvider.authenticateRequest with verifyJWT
oauthAuthenticateRequest(a) ==
    LET token == extractTokenFromRequest(a)
    IN  IF token.form = "null"
        THEN [status |-> 401, message |-> "Missing authorization token", session |-> NoSession]
        ELSE IF token.form = "ok" /\ ~token.expired
        THEN [status |-> 200, message |-> "",
              session |-> [present |-> TRUE, scopes |-> token.scopes]]
        ELSE [status |-> 401, message |-> "Invalid or expired token", session |-> NoSession]

ReadTools == {"read_graph", "search_nodes", "find_nodes"}
WriteTools == {"create_entities", "create_relations", "add_observations",
               "delete_entities", "delete_observations", "delete_relations"}
AdminTools == {"health_check"}
Tools == ReadTools \cup WriteTools \cup AdminTools

RequiredScopeHealthRead(op) == IF op \in WriteTools THEN "write" ELSE "read"

\* the scope each tool's execute passes to hasScope
RequiredScope(op) ==
    IF op \in ReadTools THEN "read" ELSE IF op \in AdminTools THEN "admin" ELSE "write"

ValidItems(items, keys) == \A i \in DOMAIN items : keys \subseteq DOMAIN items[i]

\* the zod schema of each tool's parameters: every listed field is required
ValidArgs(op, args) ==
    CASE op = "create_entities"     -> ValidItems(args, {"name", "type", "observations"})
      [] op = "create_relations"    -> ValidItems(args, {"source", "target", "relationType"})
      [] op = "delete_relations"    -> ValidItems(args, {"source", "target", "relationType"})
      [] op = "add_observations"    -> ValidItems(args, {"entityName", "contents"})
      [] op = "delete_observations" -> ValidItems(args, {"entityName", "observations"})
      [] OTHER                      -> TRUE

\* a call that ends before the client is reached
Refused(outcome, message) == Effect(nodes, rels, outcome, message, 0, 0)

executeStoreFirst(op, session, clientEffect) ==
    IF ~session.present THEN Refused("unauthenticated", <<"Authentication required">>)
    ELSE IF ~hasScope(session.scopes, RequiredScope(op))
    THEN [clientEffect EXCEPT !.outcome = "denied",
                              !.result = <<"Insufficient permissions", RequiredScope(op)>>]
    ELSE clientEffect

\* a tool's execute: the session check, the scope check, then the client call
execute(op, session, clientEffect) ==
    IF ~session.present THEN Refused("unauthenticated", <<"Authentication required">>)
    ELSE IF ~hasScope(session.scopes, RequiredScope(op))
    THEN Refused("denied", <<"Insufficient permissions", RequiredScope(op)>>)
    ELSE clientEffect

HandleAuthorizeFirst(op, a, args, clientEffect) ==
    LET auth == oauthAuthenticateRequest(a)
    IN  IF auth.status # 200 THEN Refused("unauthenticated", <<auth.message>>)
        ELSE execute(op, auth.session,
                     IF ~ValidArgs(op, args) THEN Refused("rejected", <<"Invalid arguments">>)
                     ELSE clientEffect)

\* one tool call: FastMCP authenticates the request, validates the arguments against
\* the tool's schema and calls execute
Handle(op, a, args, clientEffect) ==
    LET auth == oauthAuthenticateRequest(a)
    IN  IF auth.status # 200 THEN Refused("unauthenticated", <<auth.message>>)
        ELSE IF ~ValidArgs(op, args) THEN Refused("rejected", <<"Invalid arguments">>)
        ELSE execute(op, auth.session, clientEffect)

NoCall == [op |-> NONE, scopes |-> <<>>, args |-> <<>>, outcome |-> NONE, result |-> <<>>,
           opened |-> 0, statements |-> 0]

Respond(op, a, args, eff) ==
    /\ variant = "oauth"
    /\ nodes' = eff.nodes
    /\ rels' = eff.rels
    /\ last' = [op |-> op, scopes |-> oauthAuthenticateRequest(a).session.scopes, args |-> args,
                outcome |-> eff.outcome, result |-> eff.result,
                opened |-> eff.opened, statements |-> eff.statements]
    /\ UNCHANGED <<keyHistory, oauthFlow, variant, gate, authn, validApiKeys, resolved, inflight, sessions>>

create_entities(a, entities, failAt) ==
    Respond("create_entities", a, entities,
            Handle("create_entities", a, entities, createEntities(nodes, rels, entities, failAt)))

create_relations(a, relations, failAt) ==
    Respond("create_relations", a, relations,
            Handle("create_relations", a, relations, createRelations(nodes, rels, relations, failAt)))

add_observations(a, observations, eager, failAt) ==
    Respond("add_observations", a, observations,
            Handle("add_observations", a, observations,
                   addObservations(nodes, rels, observations, eager, failAt)))

delete_entities(a, entityNames, failAt) ==
    Respond("delete_entities", a, entityNames,
            Handle("delete_entities", a, entityNames, deleteEntities(nodes, rels, entityNames, failAt)))

delete_observations(a, deletions, failAt) ==
    Respond("delete_observations", a, deletions,
            Handle("delete_observations", a, deletions,
                   deleteObservations(nodes, rels, deletions, failAt)))

delete_relations(a, relations, failAt) ==
    Respond("delete_relations", a, relations,
            Handle("delete_relations", a, relations, deleteRelations(nodes, rels, relations, failAt)))

read_graph(a, failAt) ==
    Respond("read_graph", a, <<>>,
            Handle("read_graph", a, <<>>, loadGraph(nodes, rels, MatchAll, failAt)))

search_nodes(a, query, failAt) ==
    Respond("search_nodes", a, <<query>>,
            Handle("search_nodes", a, <<query>>, searchNodes(nodes, rels, query, failAt)))

find_nodes(a, names, failAt) ==
    Respond("find_nodes", a, names,
            Handle("find_nodes", a, names, findNodes(nodes, rels, names, failAt)))

\* health_check returns the status object: neo4j.connected and the session's scopes
health_check(a, reachable) ==
    Respond("health_check", a, <<>>,
            Handle("health_check", a, <<>>,
                   [verifyConnection(nodes, rels, reachable) EXCEPT
                        !.result = [connected |-> @,
                                    scopes |-> oauthAuthenticateRequest(a).session.scopes]]))

(***************************************************************************)
(* Neo4jMCPServerWithApiKey: the key registry and its create_entities      *)
(***************************************************************************)

\* the constructor registers the default key with the three permissions
DefaultApiKey == "key_k"
DefaultRegistry == [k \in {DefaultApiKey} |-> <<"mcp:read", "mcp:write", "mcp:admin">>]

\* the auth callback of the FastMCP server
registryAuth(key) ==
    IF Falsy(key)
    THEN [status |-> 401, message |-> "API key required", session |-> NoSession]
    ELSE IF key \notin DOMAIN validApiKeys
    THEN [status |-> 401, message |-> "Invalid API key", session |-> NoSession]
    ELSE [status |-> 200, message |-> "",
          session |-> [present |-> TRUE, scopes |-> validApiKeys[key]]]

MaxKeys == 2

\* generateApiKey: 'mcp_' and 32 random bytes in hex, a string no earlier call has
\* returned; the n-th key generated
generateApiKey(n) ==
    CASE n = 1 -> "mcp_1"
      [] n = 2 -> "mcp_2"
      [] n = 3 -> "mcp_3"
      [] OTHER -> "mcp_4"

\* Map.prototype.set
MapSet(map, key, value) ==
    [k \in DOMAIN map \cup {key} |-> IF k = key THEN value ELSE map[k]]

MapDeleteLeavesEntry(map, key) == map

\* Map.prototype.delete: the map without the key
MapDelete(map, key) == [k \in DOMAIN map \ {key} |-> map[k]]

\* addApiKey(permissions): returns the new key
addApiKey(permissions) ==
    LET apiKey == generateApiKey(generated + 1)
    IN  /\ variant = "apikey"
        /\ generated < MaxKeys
        /\ generated' = generated + 1
        /\ validApiKeys' = MapSet(validApiKeys, apiKey, permissions)
        /\ last' = [op |-> "addApiKey", scopes |-> <<>>, args |-> permissions, outcome |-> "ok",
                    result |-> apiKey, opened |-> 0, statements |-> 0]
        /\ UNCHANGED <<oauthFlow, variant, nodes, rels, gate, authn, resolved, inflight, sessions,
                       removed>>

\* removeApiKey(apiKey): returns whether the key was registered
removeApiKey(apiKey) ==
    LET returned == apiKey \in DOMAIN validApiKeys
    IN  /\ variant = "apikey"
        /\ validApiKeys' = MapDelete(validApiKeys, apiKey)
        /\ removed' = IF returned THEN removed \cup {apiKey} ELSE removed
        /\ last' = [op |-> "removeApiKey", scopes |-> <<>>, args |-> apiKey, outcome |-> "ok",
                    result |-> returned, opened |-> 0, statements |-> 0]
        /\ UNCHANGED <<oauthFlow, variant, nodes, rels, gate, authn, resolved, inflight, sessions,
                       generated>>

\* a request with the header X-API-Key: key (NONE when absent) is authenticated
auth(key) ==
    LET response == registryAuth(key)
    IN  /\ variant = "apikey"
        /\ last' = [op |-> "auth", scopes |-> response.session.scopes, args |-> key,
                    outcome |-> IF response.status = 200 THEN "ok" ELSE "unauthenticated",
                    result |-> response, opened |-> 0, statements |-> 0]
        /\ UNCHANGED <<keyHistory, oauthFlow, variant, nodes, rels, gate, authn, validApiKeys,
                       resolved, inflight, sessions>>

\* the statements the handler runs, in order: per entity the MERGE, then one CREATE
\* per observation (observations is optional in this schema)
RECURSIVE EntityStatements(_, _)
EntityStatements(entities, i) ==
    IF i > Len(entities) THEN <<>>
    ELSE LET entity == entities[i]
             obs == IF "observations" \in DOMAIN entity THEN entity.observations ELSE <<>>
         IN  <<[kind |-> "merge", name |-> entity.name, type |-> entity.type]>>
             \o [k \in DOMAIN obs |-> [kind |-> "observation", name |-> entity.name, content |-> obs[k]]]
             \o EntityStatements(entities, i + 1)

\* MERGE (e:Entity {name: $name}) SET e.type = $type  (the timestamps are left out)
MergeEntityStatement(ns, name, type) ==
    LET merged == MergeNode(ns, "Entity", name)
        bound  == {n.id : n \in ByName(merged, "Entity", name)}
    IN  {IF n.id \in bound THEN [n EXCEPT !.props = Override(@, [type |-> type])] ELSE n : n \in merged}

\* MATCH (e:Entity {name: $entityName}) CREATE (o:Observation {content: $content})
\* CREATE (e)-[:HAS_OBSERVATION]->(o), once per matched entity
RECURSIVE CreateObservationStatement(_, _, _, _)
CreateObservationStatement(ns, rs, owners, content) ==
    IF owners = <<>> THEN [nodes |-> ns, rels |-> rs]
    ELSE LET o == [id |-> FreshId(ns), labels |-> {"Observation"}, props |-> [content |-> content]]
         IN  CreateObservationStatement(ns \cup {o},
                                        CreateRelationship(rs, Head(owners).id, o.id, "HAS_OBSERVATION"),
                                        Tail(owners), content)

RECURSIVE RunEntityStatements(_, _, _, _, _, _)
RunEntityStatements(ns, rs, stmts, i, failAt, entities) ==
    IF i > Len(stmts)
    THEN Effect(ns, rs, "ok",
                [k \in DOMAIN entities |-> [name |-> entities[k].name, type |-> entities[k].type,
                                            created |-> TRUE]],
                1, Len(stmts))
    ELSE IF i = failAt THEN Effect(ns, rs, "failed", <<>>, 1, i)
    ELSE IF stmts[i].kind = "merge"
    THEN RunEntityStatements(MergeEntityStatement(ns, stmts[i].name, stmts[i].type), rs,
                             stmts, i + 1, failAt, entities)
    ELSE LET g == CreateObservationStatement(ns, rs, NodesInOrder(ByName(ns, "Entity", stmts[i].name)),
                                             stmts[i].content)
         IN  RunEntityStatements(g.nodes, g.rels, stmts, i + 1, failAt, entities)

\* the create_entities handler of Neo4jMCPServerWithApiKey
apiKeyCreateEntitiesHandler(key, entities, failAt) ==
    LET response == registryAuth(key)
    IN  IF response.status # 200 THEN Refused("unauthenticated", <<response.message>>)
        ELSE IF ~ValidItems(entities, {"name", "type"}) THEN Refused("rejected", <<"Invalid arguments">>)
        ELSE IF ~apiKeyHasPermission(response.session.scopes, "mcp:write")
        THEN Refused("denied", <<"Insufficient permissions", "mcp:write">>)
        ELSE RunEntityStatements(nodes, rels, EntityStatements(entities, 1), 1, failAt, entities)

MaxNodes == 4

apikey_create_entities(key, entities, failAt) ==
    LET eff == apiKeyCreateEntitiesHandler(key, entities, failAt)
    IN  /\ variant = "apikey"
        /\ Cardinality(eff.nodes) <= MaxNodes
        /\ nodes' = eff.nodes
        /\ rels' = eff.rels
        /\ last' = [op |-> "create_entities", scopes |-> registryAuth(key).session.scopes,
                    args |-> entities, outcome |-> eff.outcome, result |-> eff.result,
                    opened |-> eff.opened, statements |-> eff.statements]
        /\ UNCHANGED <<keyHistory, oauthFlow, variant, gate, authn, validApiKeys, resolved, inflight, sessions>>

(***************************************************************************)
(* The Descope server (FASTMCP_BEST_PRACTICES.md, server-descope.ts): its  *)
(* handlers on :Entity and :Observation nodes                              *)
(***************************************************************************)

\* the characters of the strings that are given or interpolated as relationship types
Spell(str) ==
    CASE str = "R1"       -> <<"R", "1">>
      [] str = "R2"       -> <<"R", "2">>
      [] str = "r1"       -> <<"r", "1">>
      [] str = "works at" -> <<"w", "o", "r", "k", "s", " ", "a", "t">>
      [] str = "WORKS_AT" -> <<"W", "O", "R", "K", "S", "_", "A", "T">>
      [] str = "a \t-b"   -> <<"a", " ", "\t", "-", "b">>
      [] str = "A_-B"     -> <<"A", "_", "-", "B">>
      [] str = "${relation.relationType}" ->
             <<"$", "{", "r", "e", "l", "a", "t", "i", "o", "n", ".",
               "r", "e", "l", "a", "t", "i", "o", "n", "T", "y", "p", "e", "}">>

RelationTypeStrings ==
    {"R1", "R2", "r1", "works at", "WORKS_AT", "a \t-b", "A_-B", "${relation.relationType}"}

\* the string of these characters
Text(chars) == CHOOSE str \in RelationTypeStrings : Spell(str) = chars

LowerCaseLetters ==
    <<"a", "b", "c", "d", "e", "f", "g", "h", "i", "j", "k", "l", "m",
      "n", "o", "p", "q", "r", "s", "t", "u", "v", "w", "x", "y", "z">>

UpperCaseLetters ==
    <<"A", "B", "C", "D", "E", "F", "G", "H", "I", "J", "K", "L", "M",
      "N", "O", "P", "Q", "R", "S", "T", "U", "V", "W", "X", "Y", "Z">>

Digits == {"0", "1", "2", "3", "4", "5", "6", "7", "8", "9"}

\* the characters \s matches, among those of the model
Whitespace == {" ", "\t", "\n"}

\* String.prototype.toUpperCase
toUpperCase(chars) ==
    [i \in DOMAIN chars |->
        IF \E k \in DOMAIN LowerCaseLetters : LowerCaseLetters[k] = chars[i]
        THEN UpperCaseLetters[CHOOSE k \in DOMAIN LowerCaseLetters : LowerCaseLetters[k] = chars[i]]
        ELSE chars[i]]

\* replace(/\s+/g, '_'): every run of whitespace becomes one underscore
RECURSIVE replaceWhitespace(_)
replaceWhitespace(chars) ==
    IF chars = <<>> THEN <<>>
    ELSE IF Head(chars) \notin Whitespace THEN <<Head(chars)>> \o replaceWhitespace(Tail(chars))
    ELSE IF Len(chars) > 1 /\ chars[2] \in Whitespace THEN replaceWhitespace(Tail(chars))
    ELSE <<"_">> \o replaceWhitespace(Tail(chars))

\* rel.relation.toUpperCase().replace(/\s+/g, '_')
relType(relation) == Text(replaceWhitespace(toUpperCase(Spell(relation))))

\* a relationship type written without backticks has to be an identifier, or the
\* statement does not parse
IsIdentifier(chars) ==
    /\ chars # <<>>
    /\ chars[1] \notin Digits
    /\ \A i \in DOMAIN chars :
           chars[i] \in Range(LowerCaseLetters) \cup Range(UpperCaseLetters) \cup Digits \cup {"_"}

\* requirePermission, then the handler
DescopeHandle(permissions, permission, handlerEffect) ==
    IF ~descopeHasPermission(permissions, permission)
    THEN Refused("denied", <<"Insufficient permissions", permission>>)
    ELSE handlerEffect

\* the arguments are parsed with the tool's parameters schema before the handler
\* is called
DescopeParse(valid, handled) ==
    IF ~valid THEN Refused("rejected", <<"Invalid arguments">>) ELSE handled

\* the create_entities handler: the statements of Neo4jMCPServerWithApiKey's handler
descopeCreateEntities(ns, rs, entities, failAt) ==
    RunEntityStatements(ns, rs, EntityStatements(entities, 1), 1, failAt, entities)

RECURSIVE CreateRelationships(_, _, _)
CreateRelationships(rs, pairs, ty) ==
    IF pairs = {} THEN rs
    ELSE LET p == CHOOSE q \in pairs : TRUE
         IN  CreateRelationships(CreateRelationship(rs, p[1], p[2], ty), pairs \ {p}, ty)

\* MATCH (from:Entity {name: $from}) MATCH (to:Entity {name: $to})
\* CREATE (from)-[r:${relType}]->(to)
DescopeCreateRelationStatement(ns, rs, rel) ==
    CreateRelationships(rs, {<<f.id, t.id>> : f \in ByName(ns, "Entity", rel.from),
                                              t \in ByName(ns, "Entity", rel.to)},
                        relType(rel.relation))

\* one statement per relation; a result is pushed when the statement returned a row
RECURSIVE DescopeCreateRelationsLoop(_, _, _, _, _, _)
DescopeCreateRelationsLoop(ns, rs, relations, i, failAt, results) ==
    IF i > Len(relations) THEN Effect(ns, rs, "ok", results, 1, Len(relations))
    ELSE IF i = failAt \/ ~IsIdentifier(Spell(relType(relations[i].relation)))
    THEN Effect(ns, rs, "failed", <<>>, 1, i)
    ELSE LET rel == relations[i]
             matched == ByName(ns, "Entity", rel.from) # {} /\ ByName(ns, "Entity", rel.to) # {}
         IN  DescopeCreateRelationsLoop(
                 ns, DescopeCreateRelationStatement(ns, rs, rel), relations, i + 1, failAt,
                 IF matched
                 THEN Append(results, [from |-> rel.from, to |-> rel.to,
                                       relation |-> relType(rel.relation), created |-> TRUE])
                 ELSE results)

\* the create_relations handler
descopeCreateRelations(ns, rs, relations, failAt) ==
    DescopeCreateRelationsLoop(ns, rs, relations, 1, failAt, <<>>)

\* the add_observations handler: one CREATE statement per string
RECURSIVE DescopeAddObservationsLoop(_, _, _, _, _, _, _)
DescopeAddObservationsLoop(ns, rs, entity_name, observations, i, failAt, added) ==
    IF i > Len(observations) THEN Effect(ns, rs, "ok", added, 1, Len(observations))
    ELSE IF i = failAt THEN Effect(ns, rs, "failed", <<>>, 1, i)
    ELSE LET owners == NodesInOrder(ByName(ns, "Entity", entity_name))
             g == CreateObservationStatement(ns, rs, owners, observations[i])
         IN  DescopeAddObservationsLoop(g.nodes, g.rels, entity_name, observations, i + 1, failAt,
                                        IF owners # <<>> THEN Append(added, observations[i])
                                        ELSE added)

descopeAddObservations(ns, rs, entity_name, observations, failAt) ==
    DescopeAddObservationsLoop(ns, rs, entity_name, observations, 1, failAt, <<>>)

DescopeDeleteEntityStatementUnanchored(ns, rs, name) ==
    LET es   == {n.id : n \in ByName(ns, "Entity", name)}
        os   == {n.id : n \in {m \in ns : "Observation" \in m.labels}}
        gone == es \cup os
    IN  [nodes |-> {n \in ns : n.id \notin gone},
         rels  |-> {r \in rs : r.from \notin gone /\ r.to \notin gone}]

\* MATCH (e:Entity {name: $name}) OPTIONAL MATCH (e)-[:HAS_OBSERVATION]->(o:Observation)
\* DETACH DELETE e, o
DescopeDeleteEntityStatementEntityOnly(ns, rs, name) ==
    LET gone == {n.id : n \in ByName(ns, "Entity", name)}
    IN  [nodes |-> {n \in ns : n.id \notin gone},
         rels  |-> {r \in rs : r.from \notin gone /\ r.to \notin gone}]

DescopeDeleteEntityStatement(ns, rs, name) ==
    LET es   == {n.id : n \in ByName(ns, "Entity", name)}
        os   == {n.id : n \in {m \in ns : /\ "Observation" \in m.labels
                                          /\ \E r \in rs : /\ r.from \in es
                                                           /\ r.to = m.id
                                                           /\ r.type = "HAS_OBSERVATION"}}
        gone == es \cup os
    IN  [nodes |-> {n \in ns : n.id \notin gone},
         rels  |-> {r \in rs : r.from \notin gone /\ r.to \notin gone}]

RECURSIVE DescopeDeleteEntitiesLoop(_, _, _, _, _, _)
DescopeDeleteEntitiesLoop(ns, rs, entity_names, i, failAt, results) ==
    IF i > Len(entity_names) THEN Effect(ns, rs, "ok", results, 1, Len(entity_names))
    ELSE IF i = failAt THEN Effect(ns, rs, "failed", <<>>, 1, i)
    ELSE LET g == DescopeDeleteEntityStatement(ns, rs, entity_names[i])
         IN  DescopeDeleteEntitiesLoop(
                 g.nodes, g.rels, entity_names, i + 1, failAt,
                 Append(results, [name |-> entity_names[i],
                                  deleted |-> ByName(ns, "Entity", entity_names[i]) # {}]))

\* the delete_entities handler
descopeDeleteEntities(ns, rs, entity_names, failAt) ==
    DescopeDeleteEntitiesLoop(ns, rs, entity_names, 1, failAt, <<>>)

\* the delete_observations handler, one statement:
\*   MATCH (e:Entity {name: $entityName})-[:HAS_OBSERVATION]->(o:Observation {content: $content})
\*   DELETE o
\* DELETE, unlike DETACH DELETE, leaves the HAS_OBSERVATION relationship of o in
\* place, and the store refuses to delete a node that still has a relationship:
\* the statement throws whenever it matched an observation
descopeDeleteObservations(ns, rs, params, failAt) ==
    LET es == {n.id : n \in ByName(ns, "Entity", params.entity_name)}
        os == {o \in ns : /\ "Observation" \in o.labels
                          /\ o.props.content = params.observation_content
                          /\ \E r \in rs : /\ r.from \in es
                                           /\ r.to = o.id
                                           /\ r.type = "HAS_OBSERVATION"}
    IN  IF failAt = 1 \/ os # {} THEN Effect(ns, rs, "failed", <<>>, 1, 1)
        ELSE Effect(ns, rs, "ok", [observations_deleted |-> 0], 1, 1)

\* the delete_relations handler: relation_type is optional (NONE when left out); an
\* empty string is falsy as well
descopeDeleteRelations(ns, rs, params, failAt) ==
    LET froms == {n.id : n \in ByName(ns, "Entity", params.from)}
        tos   == {n.id : n \in ByName(ns, "Entity", params.to)}
        typed == "relation_type" \in DOMAIN params /\ ~Falsy(params.relation_type)
        hit   == {r \in rs : /\ r.from \in froms
                             /\ r.to \in tos
                             /\ typed => r.type = relType(params.relation_type)}
    IN  IF failAt = 1 \/ (typed /\ ~IsIdentifier(Spell(relType(params.relation_type))))
        THEN Effect(ns, rs, "failed", <<>>, 1, 1)
        ELSE Effect(ns, rs \ hit, "ok", [relations_deleted |-> Cardinality(hit)], 1, 1)

\* the find_nodes handler with include_relations left at its default: the first
\* record, or success: false when there is none
descopeFindNodes(ns, rs, name, failAt) ==
    IF failAt = 1 THEN Effect(ns, rs, "failed", <<>>, 1, 1)
    ELSE LET matched == ByName(ns, "Entity", name)
         IN  IF matched = {} THEN Effect(ns, rs, "ok", [success |-> FALSE], 1, 1)
             ELSE LET e == NodesInOrder(matched)[1]
                      isEntity(id) == \E n \in ns : n.id = id /\ "Entity" \in n.labels
                  IN  Effect(ns, rs, "ok",
                        [success |-> TRUE, name |-> e.props.name, type |-> e.props.type,
                         observations |->
                            {NodeById(ns, r.to).props.content :
                                r \in {q \in rs : /\ q.from = e.id
                                                  /\ q.type = "HAS_OBSERVATION"
                                                  /\ "Observation" \in NodeById(ns, q.to).labels}},
                         relations |->
                            {[type |-> r.type, entity |-> NodeById(ns, r.to).props.name,
                              direction |-> "outgoing"] :
                                r \in {q \in rs : q.from = e.id /\ isEntity(q.to)}}
                            \cup
                            {[type |-> r.type, entity |-> NodeById(ns, r.from).props.name,
                              direction |-> "incoming"] :
                                r \in {q \in rs : q.to = e.id /\ isEntity(q.from) /\ q.from # e.id}}],
                        1, 1)

\* the words the index entity_search holds for a node: the properties name, type,
\* content and summary of the nodes labelled Entity or Observation (no statement of
\* the server sets summary)
EntitySearchTokens(n) ==
    IF n.labels \cap {"Entity", "Observation"} = {} THEN {}
    ELSE UNION {Analyze(n.props[f]) : f \in DOMAIN n.props \cap {"name", "type", "content", "summary"}}

\* the search_nodes handler with limit at its default.  The index is created by
\* setupSchema, which logs and swallows an error of its statements: indexed tells
\* whether the index exists.  The query is params.query + '*': a word of the index
\* that starts with the query word; the words of the model are one letter long.
\* Every matched node is a result, an Observation node with its own (absent) name
\* and type and with no observations.
descopeSearchNodes(ns, rs, query, indexed, failAt) ==
    IF failAt = 1 \/ ~indexed THEN Effect(ns, rs, "failed", <<>>, 1, 1)
    ELSE LET matched == {n \in ns : EntitySearchTokens(n) \cap Analyze(query) # {}}
         IN  Effect(ns, rs, "ok",
                    {[name |-> IF "name" \in DOMAIN n.props THEN n.props.name ELSE NONE,
                      type |-> IF "type" \in DOMAIN n.props THEN n.props.type ELSE NONE,
                      labels |-> n.labels,
                      observations |->
                          {NodeById(ns, r.to).props.content :
                              r \in {q \in rs : /\ q.from = n.id
                                                /\ q.type = "HAS_OBSERVATION"
                                                /\ "Observation" \in NodeById(ns, q.to).labels}}] :
                        n \in matched},
                    1, 1)

MaxEdges == 3

\* one call of a tool of the Descope server by a session with the given permissions
DescopeRespond(op, permissions, args, eff) ==
    /\ variant = "descope"
    /\ Cardinality(eff.nodes) <= MaxNodes
    /\ Cardinality(eff.rels) <= MaxEdges
    /\ nodes' = eff.nodes
    /\ rels' = eff.rels
    /\ last' = [op |-> op, scopes |-> permissions, args |-> args,
                outcome |-> eff.outcome, result |-> eff.result,
                opened |-> eff.opened, statements |-> eff.statements]
    /\ UNCHANGED <<keyHistory, oauthFlow, variant, gate, authn, validApiKeys, resolved, inflight, sessions>>

descope_create_entities(permissions, entities, failAt) ==
    DescopeRespond("create_entities", permissions, entities,
                   DescopeParse(ValidItems(entities, {"name", "type"}),
                                DescopeHandle(permissions, "mcp:write",
                                              descopeCreateEntities(nodes, rels, entities, failAt))))

descope_create_relations(permissions, relations, failAt) ==
    DescopeRespond("create_relations", permissions, relations,
                   DescopeParse(ValidItems(relations, {"from", "to", "relation"}),
                                DescopeHandle(permissions, "mcp:write",
                                              descopeCreateRelations(nodes, rels, relations, failAt))))

descope_add_observations(permissions, entity_name, observations, failAt) ==
    DescopeRespond("add_observations", permissions,
                   [entity_name |-> entity_name, observations |-> observations],
                   DescopeHandle(permissions, "mcp:write",
                                 descopeAddObservations(nodes, rels, entity_name, observations, failAt)))

descope_delete_entities(permissions, entity_names, failAt) ==
    DescopeRespond("delete_entities", permissions, entity_names,
                   DescopeHandle(permissions, "mcp:write",
                                 descopeDeleteEntities(nodes, rels, entity_names, failAt)))

descope_delete_observations(permissions, params, failAt) ==
    DescopeRespond("delete_observations", permissions, params,
                   DescopeHandle(permissions, "mcp:write",
                                 descopeDeleteObservations(nodes, rels, params, failAt)))

descope_delete_relations(permissions, params, failAt) ==
    DescopeRespond("delete_relations", permissions, params,
                   DescopeHandle(permissions, "mcp:write",
                                 descopeDeleteRelations(nodes, rels, params, failAt)))

descope_find_nodes(permissions, name, failAt) ==
    DescopeRespond("find_nodes", permissions, name,
                   DescopeHandle(permissions, "mcp:read",
                                 descopeFindNodes(nodes, rels, name, failAt)))

descope_search_nodes(permissions, query, indexed, failAt) ==
    DescopeRespond("search_nodes", permissions, <<query>>,
                   DescopeHandle(permissions, "mcp:read",
                                 descopeSearchNodes(nodes, rels, query, indexed, failAt)))

\* MATCH (n:Entity) OPTIONAL MATCH (n)-[:HAS_OBSERVATION]->(o:Observation)
\* RETURN count(DISTINCT n) as entities, count(DISTINCT o) as observations
DatabaseStats(ns, rs) ==
    LET entities == {n \in ns : "Entity" \in n.labels}
        observations == {o \in ns : /\ "Observation" \in o.labels
                                    /\ \E r \in rs : /\ r.type = "HAS_OBSERVATION"
                                                     /\ r.to = o.id
                                                     /\ r.from \in {n.id : n \in entities}}
    IN  [entities |-> Cardinality(entities), observations |-> Cardinality(observations)]

\* the health_check handler: the probe RETURN 1, then the statistics; an error of
\* either statement is caught and returned as the unhealthy result
descopeHealthCheck(ns, rs, permissions, failAt) ==
    IF failAt \in 1..2
    THEN Effect(ns, rs, "ok",
                [success |-> FALSE, status |-> "unhealthy", database |-> "disconnected",
                 stats |-> [entities |-> 0, observations |-> 0], permissions |-> <<>>],
                1, failAt)
    ELSE Effect(ns, rs, "ok",
                [success |-> TRUE, status |-> "healthy", database |-> "connected",
                 stats |-> DatabaseStats(ns, rs), permissions |-> permissions],
                1, 2)

descope_health_check(permissions, failAt) ==
    DescopeRespond("health_check", permissions, <<>>,
                   DescopeHandle(permissions, "mcp:admin",
                                 descopeHealthCheck(nodes, rels, permissions, failAt)))

(***************************************************************************)
(* Store sessions.  Every client method and handler has the shape          *)
(*   const session = driver.session();                                     *)
(*   try { ... await session.run(...) ... } finally { await session.close() } *)
(* and several calls may be between two awaits at the same time.  inflight *)
(* holds each caller's position, sessions the callers whose session is open*)
(***************************************************************************)

MaxCalls == 2

Callers == 1..MaxCalls

Idle == [pc |-> "idle", op |-> NONE, args |-> <<>>, next |-> 0, outcome |-> NONE]

InFlight == {c \in Callers : inflight[c].pc # "idle"}

\* the client methods of the model: one that runs one statement on a list, one that
\* deletes, and the two that run one statement per item
ClientMethods == {"createEntities", "createRelations", "deleteEntities", "deleteRelations"}

\* the number of statements the method or handler awaits, one after another
StatementCount(op, args) ==
    CASE op \in {"createRelations", "deleteRelations"} -> Len(args)
      [] op = "create_entities"                        -> Len(EntityStatements(args, 1))
      [] op = "add_observations"                       -> Len(args.observations)
      [] op = "delete_entities"                        -> Len(args)
      [] OTHER                                         -> 1

\* the store after statement i of the call
RunStatement(ns, rs, op, args, i) ==
    CASE op = "createEntities"     -> createEntities(ns, rs, args, 0)
      [] op = "deleteEntities"     -> deleteEntities(ns, rs, args, 0)
      [] op = "createRelations"    ->
             Effect(ns, CreateRelationStatement(ns, rs, args[i]), "ok", <<>>, 1, 1)
      [] op = "deleteRelations"    ->
             Effect(ns, DeleteRelationStatement(ns, rs, args[i]), "ok", <<>>, 1, 1)
      [] op = "create_entities"    ->
             RunEntityStatements(ns, rs, <<EntityStatements(args, 1)[i]>>, 1, 0, <<>>)
      [] op = "add_observations"   ->
             LET g == CreateObservationStatement(
                          ns, rs, NodesInOrder(ByName(ns, "Entity", args.entity_name)),
                          args.observations[i])
             IN  Effect(g.nodes, g.rels, "ok", <<>>, 1, 1)
      [] op = "delete_observations" -> descopeDeleteObservations(ns, rs, args, 0)
      [] op = "delete_entities"    ->
             LET g == DescopeDeleteEntityStatement(ns, rs, args[i])
             IN  Effect(g.nodes, g.rels, "ok", <<>>, 1, 1)

closeOnReturnOnly(open, c, outcome) == IF outcome = "ok" THEN open \ {c} ELSE open

\* finally { await session.close() }: runs whether the try block returned or threw
finallyClose(open, c, outcome) == open \ {c}

\* const session = this.driver.session(...), then the try block is entered
OpenSession(c, v, op, args) ==
    /\ variant = v
    /\ inflight[c].pc = "idle"
    /\ sessions' = sessions \cup {c}
    /\ inflight' = [inflight EXCEPT ![c] = [pc |-> "try", op |-> op, args |-> args,
                                            next |-> 1, outcome |-> NONE]]
    /\ UNCHANGED <<keyHistory, oauthFlow, variant, nodes, rels, last, gate, authn, validApiKeys, resolved>>

\* await session.run(...): the next statement of the call is applied, or it throws
\* and the try block is left
AwaitRun(c, throws) ==
    LET call == inflight[c]
        eff  == RunStatement(nodes, rels, call.op, call.args, call.next)
        n    == StatementCount(call.op, call.args)
    IN  /\ call.pc = "try"
        /\ IF throws \/ eff.outcome = "failed"
           THEN /\ inflight' = [inflight EXCEPT ![c].pc = "finally", ![c].outcome = "failed"]
                /\ UNCHANGED <<nodes, rels>>
           ELSE /\ Cardinality(eff.nodes) <= MaxNodes
                /\ Cardinality(eff.rels) <= MaxEdges
                /\ nodes' = eff.nodes
                /\ rels' = eff.rels
                /\ inflight' = IF call.next = n
                               THEN [inflight EXCEPT ![c].pc = "finally", ![c].outcome = "ok"]
                               ELSE [inflight EXCEPT ![c].next = call.next + 1]
        /\ UNCHANGED <<keyHistory, oauthFlow, variant, last, gate, authn, validApiKeys, resolved, sessions>>

\* the finally block, after which the call returns or rethrows
CloseSession(c) ==
    LET call == inflight[c]
    IN  /\ call.pc = "finally"
        /\ sessions' = finallyClose(sessions, c, call.outcome)
        /\ inflight' = [inflight EXCEPT ![c] = Idle]
        /\ last' = [op |-> call.op, scopes |-> <<>>, args |-> call.args,
                    outcome |-> call.outcome, result |-> <<>>, opened |-> 1,
                    statements |-> call.next]
        /\ UNCHANGED <<keyHistory, oauthFlow, variant, nodes, rels, gate, authn, validApiKeys, resolved>>

(***************************************************************************)
(* DescopeAuthProvider: the OAuth flow.  initiateOAuthFlow stores a state  *)
(* with its code verifier and the time; completeOAuthFlow looks the state  *)
(* up, checks its age, sends the code exchange and, when the exchange      *)
(* returned, deletes the state; cleanupExpiredStates sweeps the map        *)
(***************************************************************************)

\* 15 * 60 * 1000 milliseconds, in minutes
StateLifetime == 15

\* the clock of the model advances in steps of five minutes
TickMinutes == 5

MaxTime == 20

MaxStates == 2

\* everything but the OAuth flows
serverState ==
    <<variant, nodes, rels, last, gate, authn, validApiKeys, resolved, inflight, sessions,
      keyHistory>>

IdleFlow == [pc |-> "idle", state |-> 0, codeVerifier |-> 0, outcome |-> NONE]

\* this.oauthStates.get(state): the entries under the key
GetState(states, st) == {s \in states : s.state = st}

ExpiredAtLifetime(timestamp, t) == t - timestamp >= StateLifetime

\* Date.now() - oauthState.timestamp > 15 * 60 * 1000
Expired(timestamp, t) == t - timestamp > StateLifetime

\* initiateOAuthFlow up to this.oauthStates.set(state, oauthState): the state and the
\* verifier are fresh random values, numbered here in the order they are generated
InitiateOAuthFlow ==
    /\ issued < MaxStates
    /\ issued' = issued + 1
    /\ oauthStates' = oauthStates \cup {[state |-> issued + 1, codeVerifier |-> issued + 1,
                                         timestamp |-> now]}
    /\ UNCHANGED <<serverState, now, flows, exchanged>>

\* completeOAuthFlow(code, state) up to its first await: the lookup, the age check
\* and the call of client.oauth.exchange with the stored verifier
\* (the catch block rethrows each error as 'Failed to complete OAuth flow: ' and its
\* message; the outcome of the model is the message)
CompleteLookup(c, st) ==
    LET found == GetState(oauthStates, st)
        oauthState == CHOOSE s \in found : TRUE
        ended(outcome) == [flows EXCEPT ![c] = [IdleFlow EXCEPT !.outcome = outcome]]
    IN  /\ flows[c].pc = "idle"
        /\ IF found = {}
           THEN /\ flows' = ended("Invalid or expired OAuth state")
                /\ UNCHANGED <<oauthStates, exchanged>>
           ELSE IF Expired(oauthState.timestamp, now)
           THEN /\ oauthStates' = oauthStates \ found
                /\ flows' = ended("OAuth state expired")
                /\ UNCHANGED exchanged
           ELSE /\ exchanged' = exchanged \cup {st}
                /\ flows' = [flows EXCEPT ![c] = [pc |-> "exchange", state |-> st,
                                                  codeVerifier |-> oauthState.codeVerifier,
                                                  outcome |-> NONE]]
                /\ UNCHANGED oauthStates
        /\ UNCHANGED <<serverState, now, issued>>

\* the exchange returns: with tokens, and the state is deleted, or with an error,
\* and the catch block rethrows with the state left in the map
CompleteExchange(c, accepted) ==
    /\ flows[c].pc = "exchange"
    /\ oauthStates' = IF accepted THEN oauthStates \ GetState(oauthStates, flows[c].state)
                      ELSE oauthStates
    /\ flows' = [flows EXCEPT ![c] = [IdleFlow EXCEPT !.outcome =
                                           IF accepted THEN "completed"
                                           ELSE "Failed to complete OAuth flow"]]
    /\ UNCHANGED <<serverState, now, issued, exchanged>>

\* cleanupExpiredStates
CleanupExpiredStates ==
    /\ oauthStates' = {s \in oauthStates : ~Expired(s.timestamp, now)}
    /\ UNCHANGED <<serverState, now, issued, flows, exchanged>>

\* five minutes pass
Tick ==
    /\ now + TickMinutes <= MaxTime
    /\ now' = now + TickMinutes
    /\ UNCHANGED <<serverState, oauthStates, issued, flows, exchanged>>

(***************************************************************************)
(* Requests of the model                                                   *)
(***************************************************************************)

MaxBatch == 2

\* the non-empty lists of at most n elements of S
Batches(S, n) == UNION {[1..k -> S] : k \in 1..n}

Entity(name, type, observations) == [name |-> name, type |-> type, observations |-> observations]
Relation(source, target, relationType) ==
    [source |-> source, target |-> target, relationType |-> relationType]

Bearer(jwt) == [scheme |-> "Bearer", cred |-> jwt]

ToolScopeLists ==
    {<<>>, <<"read">>, <<"write">>, <<"admin">>, <<"read", "write">>, <<"read", "admin">>,
     <<"write", "admin">>, <<"read", "write", "admin">>}

\* no header, a header that is no token, tokens that do not verify, and a verified
\* token for every scope set
ToolAuthorizations ==
    {Absent, [scheme |-> "Basic", cred |-> Jwt("malformed", FALSE, <<>>)],
     Bearer(Jwt("malformed", FALSE, <<>>)), Bearer(Jwt("badsig", FALSE, <<"admin">>)),
     Bearer(Jwt("ok", TRUE, <<"admin">>))}
    \cup {Bearer(Jwt("ok", FALSE, sc)) : sc \in ToolScopeLists}

Writer == Bearer(Jwt("ok", FALSE, <<"read", "write">>))
Reader == Bearer(Jwt("ok", FALSE, <<"read">>))

\* statement numbers that may fail in a call that runs n statements (0: none fails)
Fails(I, n) == IF I.failures THEN 0..n ELSE {0}

\* the ten tools of Neo4jMCPServer, on the requests I
ToolCalls(I) ==
    \/ \E a \in I.auth, es \in I.entities, f \in Fails(I, 1) : create_entities(a, es, f)
    \/ \E a \in I.auth, r \in I.relations : \E f \in Fails(I, Len(r)) : create_relations(a, r, f)
    \/ \E a \in I.auth, o \in I.additions, e \in BOOLEAN, f \in Fails(I, 1) :
           add_observations(a, o, e, f)
    \/ \E a \in I.auth, n \in I.entityNames, f \in Fails(I, 1) : delete_entities(a, n, f)
    \/ \E a \in I.auth, d \in I.deletions, f \in Fails(I, 1) : delete_observations(a, d, f)
    \/ \E a \in I.auth, r \in I.relations : \E f \in Fails(I, Len(r)) : delete_relations(a, r, f)
    \/ \E a \in I.auth, f \in Fails(I, 1) : read_graph(a, f)
    \/ \E a \in I.auth, q \in I.queries, f \in Fails(I, 1) : search_nodes(a, q, f)
    \/ \E a \in I.auth, n \in I.findNames, f \in Fails(I, 1) : find_nodes(a, n, f)
    \/ \E a \in I.auth, up \in BOOLEAN : health_check(a, up)

InitWith(variants) ==
    /\ variant \in variants
    /\ nodes = {}
    /\ rels = {}
    /\ last = NoCall
    /\ gate = NoGate
    /\ authn = NoAuthn
    /\ validApiKeys = DefaultRegistry
    /\ resolved = NoResolution
    /\ inflight = [c \in Callers |-> Idle]
    /\ sessions = {}
    /\ now = 0
    /\ oauthStates = {}
    /\ issued = 0
    /\ flows = [c \in Callers |-> IdleFlow]
    /\ exchanged = {}
    /\ generated = 0
    /\ removed = {}

(***************************************************************************)
(* SpecGate: the three scope checks on every session and required scope    *)
(***************************************************************************)

NextGate ==
    \/ \E sc \in ScopeLists, r \in OAuthScopes : OAuthHasScope(sc, r)
    \/ \E sc \in ScopeLists, r \in MCPScopes : DescopeHasPermission(sc, r)
    \/ \E sc \in ScopeLists, r \in MCPScopes : ApiKeyHasPermission(sc, r)

SpecGate == InitWith({"oauth"}) /\ [][NextGate]_vars

(***************************************************************************)
(* SpecAuthn: authenticateRequest of the two providers on every request    *)
(***************************************************************************)

NextAuthn ==
    \/ \E h \in Headers : DescopeAuthenticate(h)
    \/ \E h \in Headers : ApiKeyAuthenticate(h)

SpecAuthn == InitWith({"oauth"}) /\ [][NextAuthn]_vars

(***************************************************************************)
(* SpecTools: every tool under every credential, on a store of one entity  *)
(***************************************************************************)

ToolsInputs ==
    [auth        |-> ToolAuthorizations,
     entities    |-> {<<Entity("a", "T", <<>>)>>, <<[name |-> "a", type |-> "T"]>>},
     relations   |-> {<<Relation("a", "a", "R1")>>, <<[source |-> "a", target |-> "a"]>>},
     additions   |-> {<<[entityName |-> "a", contents |-> <<"x">>]>>},
     entityNames |-> {<<"a">>},
     deletions   |-> {<<[entityName |-> "a", observations |-> <<"x">>]>>},
     queries     |-> {"a"},
     findNames   |-> {<<"a">>},
     failures    |-> TRUE]

NextTools == ToolCalls(ToolsInputs)

SpecTools == InitWith({"oauth"}) /\ [][NextTools]_vars

(***************************************************************************)
(* SpecEntities: create_entities of the three servers, and the deletes     *)
(***************************************************************************)

Names == {"a", "b"}

Writers == {Writer, Reader}
Keys == {DefaultApiKey, "key_x"}
PermissionLists == {<<"mcp:read", "mcp:write">>, <<"mcp:read">>}

EntityBatches ==
    Batches({Entity("a", "T", <<>>), Entity("a", "U", <<>>)}, MaxBatch)
    \cup {<<Entity("b", "T", <<"x">>)>>}

NameBatches == Batches(Names, MaxBatch)

NextEntities ==
    \/ \E a \in Writers, es \in EntityBatches : \E f \in 0..Len(es) : create_entities(a, es, f)
    \/ \E k \in Keys, es \in EntityBatches, f \in 0..(MaxBatch + 1) :
           apikey_create_entities(k, es, f)
    \/ \E p \in PermissionLists, es \in EntityBatches, f \in 0..(MaxBatch + 1) :
           descope_create_entities(p, es, f)
    \/ \E a \in Writers, n \in NameBatches, f \in 0..1 : delete_entities(a, n, f)
    \/ \E p \in PermissionLists, n \in NameBatches, f \in 0..1 : descope_delete_entities(p, n, f)

SpecEntities == InitWith({"oauth", "apikey", "descope"}) /\ [][NextEntities]_vars

(***************************************************************************)
(* SpecRelations: create_relations and delete_relations of Neo4jMCPServer  *)
(* and of the Descope server, between two entities that come and go        *)
(***************************************************************************)

SingleEntities == {<<Entity("a", "T", <<>>)>>, <<Entity("b", "T", <<>>)>>}

\* the last batch leaves relationType out
RelationBatches ==
    Batches({Relation("a", "b", "R1"), Relation("a", "b", "R2")}, MaxBatch)
    \cup {<<Relation("b", "a", "R1")>>, <<[source |-> "a", target |-> "b"]>>}

DescopeRelation(from, to, relation) == [from |-> from, to |-> to, relation |-> relation]

DescopeRelationBatches ==
    Batches({DescopeRelation("a", "b", "R1"), DescopeRelation("a", "b", "R2")}, MaxBatch)
    \cup {<<DescopeRelation("a", "b", "r1")>>, <<DescopeRelation("b", "a", "R1")>>}

\* relation_type left out and given
DescopeDeletions ==
    {[from |-> "a", to |-> "b"]}
    \cup {[from |-> "a", to |-> "b", relation_type |-> t] : t \in {"R1", "r1", "R2"}}

NextRelations ==
    \/ \E a \in Writers, es \in SingleEntities : create_entities(a, es, 0)
    \/ \E p \in PermissionLists, es \in SingleEntities : descope_create_entities(p, es, 0)
    \/ \E a \in Writers, n \in {<<"b">>} : delete_entities(a, n, 0)
    \/ \E p \in PermissionLists, n \in {<<"b">>} : descope_delete_entities(p, n, 0)
    \/ \E a \in Writers, r \in RelationBatches : \E f \in 0..Len(r) : create_relations(a, r, f)
    \/ \E p \in PermissionLists, r \in DescopeRelationBatches : \E f \in 0..Len(r) :
           descope_create_relations(p, r, f)
    \/ \E a \in Writers, r \in RelationBatches : \E f \in 0..Len(r) : delete_relations(a, r, f)
    \/ \E p \in PermissionLists, d \in DescopeDeletions, f \in 0..1 :
           descope_delete_relations(p, d, f)
    \/ \E a \in Writers : read_graph(a, 0)

SpecRelations == InitWith({"oauth", "descope"}) /\ [][NextRelations]_vars

(***************************************************************************)
(* SpecObs: observations added to and deleted from one entity              *)
(***************************************************************************)

ObservedEntities == {<<Entity("a", "T", <<>>)>>, <<Entity("a", "T", <<"x">>)>>}

Contents == {<<"x">>, <<"x", "y">>, <<"y", "y">>}

Additions == Batches({[entityName |-> "a", contents |-> c] : c \in Contents}, MaxBatch)

ObservationDeletions == {<<[entityName |-> "a", observations |-> <<"x">>]>>,
                         <<[entityName |-> "a", observations |-> <<"x", "y">>]>>}

NextObs ==
    \/ \E a \in Writers, es \in ObservedEntities, f \in 0..1 : create_entities(a, es, f)
    \/ \E a \in Writers, o \in Additions, e \in BOOLEAN, f \in 0..1 : add_observations(a, o, e, f)
    \/ \E a \in Writers, d \in ObservationDeletions, f \in 0..1 : delete_observations(a, d, f)
    \/ \E p \in PermissionLists, es \in ObservedEntities, f \in 0..2 :
           descope_create_entities(p, es, f)
    \/ \E p \in PermissionLists, n \in {"a", "b"}, c \in Contents : \E f \in 0..Len(c) :
           descope_add_observations(p, n, c, f)
    \/ \E p \in PermissionLists, n \in {<<"a">>}, f \in 0..1 : descope_delete_entities(p, n, f)
    \/ \E p \in PermissionLists, n \in {"a", "b"}, c \in {"x", "y"}, f \in 0..1 :
           descope_delete_observations(p, [entity_name |-> n, observation_content |-> c], f)

SpecObs == InitWith({"oauth", "descope"}) /\ [][NextObs]_vars

(***************************************************************************)
(* SpecFind: entities whose names share a word, deleted and looked up      *)
(***************************************************************************)

FindNames == {"a", "a b"}

FindEntities == {<<Entity("a", "T", <<"x">>)>>, <<Entity("a b", "T", <<>>)>>}

FindRelations == {<<Relation("a", "a b", "R1")>>, <<Relation("a b", "a", "R1")>>}

DescopeFindRelations == {<<DescopeRelation("a", "a b", "R1")>>, <<DescopeRelation("a b", "a", "R1")>>}

\* a word of an observation only, and a word of names
SearchQueries == {"x", "a"}

NextFind ==
    \/ \E a \in Writers, es \in FindEntities, f \in 0..1 : create_entities(a, es, f)
    \/ \E a \in Writers, r \in FindRelations, f \in 0..1 : create_relations(a, r, f)
    \/ \E a \in Writers, n \in FindNames, f \in 0..1 : delete_entities(a, <<n>>, f)
    \/ \E a \in Writers, n \in FindNames, f \in 0..1 : find_nodes(a, <<n>>, f)
    \/ \E p \in PermissionLists, es \in FindEntities, f \in 0..2 : descope_create_entities(p, es, f)
    \/ \E p \in PermissionLists, r \in DescopeFindRelations, f \in 0..1 :
           descope_create_relations(p, r, f)
    \/ \E p \in PermissionLists, n \in FindNames, f \in 0..1 :
           descope_delete_entities(p, <<n>>, f)
    \/ \E p \in PermissionLists, n \in FindNames, f \in 0..1 : descope_find_nodes(p, n, f)
    \/ \E a \in Writers, q \in SearchQueries, f \in 0..1 : search_nodes(a, q, f)
    \/ \E p \in PermissionLists, q \in SearchQueries, i \in BOOLEAN, f \in 0..1 :
           descope_search_nodes(p, q, i, f)

SpecFind == InitWith({"oauth", "descope"}) /\ [][NextFind]_vars

(***************************************************************************)
(* SpecResolve: extractPermissions on every identity                       *)
(***************************************************************************)

MaxRoles == 2

RoleNames == {"admin", "Admin", "writer", "write", "reader", "read", "editor"}

DirectPermissions ==
    {Undefined, Array(<<>>), Array(<<"mcp:read">>), Array(<<"mcp:write">>), Array(<<"mcp:health">>)}

Tenants ==
    {Undefined, Array(<<>>), Array(<<[permissions |-> Undefined]>>),
     Array(<<[permissions |-> Array(<<"mcp:admin">>)]>>),
     Array(<<[permissions |-> Array(<<"mcp:read">>)],
             [permissions |-> Array(<<"mcp:write", "mcp:read">>)]>>)}

Tokens ==
    [permissions : DirectPermissions,
     roles : {Undefined} \cup {Array(r) : r \in SeqsUpTo(RoleNames, MaxRoles)},
     tenants : Tenants]

\* extractPermissions keeps no state between calls: one call per behaviour
NextResolve == \E token \in Tokens : ~resolved.called /\ ExtractPermissions(token)

SpecResolve == InitWith({"descope"}) /\ [][NextResolve]_vars

(***************************************************************************)
(* SpecHealth: health_check of Neo4jMCPServer and of the Descope server,   *)
(* with the store reachable or not and each probe statement failing or not *)
(***************************************************************************)

Admin == Bearer(Jwt("ok", FALSE, <<"admin">>))

HealthCallers == {Admin, Writer, Bearer(Jwt("ok", FALSE, <<"read", "admin">>))}

HealthPermissionLists == {<<"mcp:admin">>, <<"mcp:read", "mcp:write">>, <<"mcp:read", "mcp:admin">>}

NextHealth ==
    \/ \E es \in ObservedEntities \cup SingleEntities : create_entities(Writer, es, 0)
    \/ \E es \in ObservedEntities \cup SingleEntities :
           descope_create_entities(<<"mcp:write">>, es, 0)
    \/ \E a \in HealthCallers, reachable \in BOOLEAN : health_check(a, reachable)
    \/ \E p \in HealthPermissionLists, f \in 0..2 : descope_health_check(p, f)

SpecHealth == InitWith({"oauth", "descope"}) /\ [][NextHealth]_vars

(***************************************************************************)
(* SpecSessions: up to MaxCalls calls of the client methods and of the     *)
(* create_entities handlers in flight at once, any statement may throw     *)
(***************************************************************************)

SessionRelations == {<<Relation("a", "a", "R1"), Relation("a", "a", "R2")>>}

NextSessions ==
    \/ \E c \in Callers, es \in {<<Entity("a", "T", <<>>)>>} :
           OpenSession(c, "oauth", "createEntities", es)
    \/ \E c \in Callers, r \in SessionRelations : OpenSession(c, "oauth", "createRelations", r)
    \/ \E c \in Callers, n \in {<<"a">>} : OpenSession(c, "oauth", "deleteEntities", n)
    \/ \E c \in Callers, r \in SessionRelations : OpenSession(c, "oauth", "deleteRelations", r)
    \/ \E c \in Callers, v \in {"apikey", "descope"}, es \in {<<Entity("a", "T", <<"x">>)>>} :
           OpenSession(c, v, "create_entities", es)
    \/ \E c \in Callers, throws \in BOOLEAN : AwaitRun(c, throws)
    \/ \E c \in Callers : CloseSession(c)

SpecSessions == InitWith({"oauth", "apikey", "descope"}) /\ [][NextSessions]_vars

(***************************************************************************)
(* SpecCalls: every tool of Neo4jMCPServer and create_entities of the two  *)
(* other servers, with well-formed and malformed arguments, under every    *)
(* credential, the store failing or not                                    *)
(***************************************************************************)

\* the second list has an entity without a type
CallEntities == {<<Entity("a", "T", <<>>)>>, <<[name |-> "a"]>>}

NextCalls ==
    \/ ToolCalls(ToolsInputs)
    \/ \E p \in PermissionLists, es \in CallEntities, f \in 0..1 : descope_create_entities(p, es, f)
    \/ \E k \in Keys, es \in CallEntities, f \in 0..1 : apikey_create_entities(k, es, f)

SpecCalls == InitWith({"oauth", "descope", "apikey"}) /\ [][NextCalls]_vars

(***************************************************************************)
(* SpecOAuth: OAuth flows started, completed by up to MaxCalls concurrent  *)
(* calls and swept, while time passes                                      *)
(***************************************************************************)

NextOAuth ==
    \/ InitiateOAuthFlow
    \/ \E c \in Callers, st \in 1..MaxStates : CompleteLookup(c, st)
    \/ \E c \in Callers, accepted \in BOOLEAN : CompleteExchange(c, accepted)
    \/ CleanupExpiredStates
    \/ Tick

SpecOAuth == InitWith({"descope"}) /\ [][NextOAuth]_vars

(***************************************************************************)
(* SpecRelType: relations created and deleted with relationship types in   *)
(* lower case, with whitespace and with other characters                   *)
(***************************************************************************)

GivenRelationTypes == {"R1", "r1", "works at", "a \t-b"}

NextRelType ==
    \/ \E a \in Writers, es \in SingleEntities : create_entities(a, es, 0)
    \/ \E p \in PermissionLists, es \in SingleEntities : descope_create_entities(p, es, 0)
    \/ \E a \in Writers, t \in GivenRelationTypes, f \in 0..1 :
           create_relations(a, <<Relation("a", "b", t)>>, f)
    \/ \E a \in Writers, t \in GivenRelationTypes, f \in 0..1 :
           delete_relations(a, <<Relation("a", "b", t)>>, f)
    \/ \E p \in PermissionLists, t \in GivenRelationTypes, f \in 0..1 :
           descope_create_relations(p, <<DescopeRelation("a", "b", t)>>, f)
    \/ \E p \in PermissionLists, t \in GivenRelationTypes, f \in 0..1 :
           descope_delete_relations(p, [from |-> "a", to |-> "b", relation_type |-> t], f)

SpecRelType == InitWith({"oauth", "descope"}) /\ [][NextRelType]_vars

(***************************************************************************)
(* SpecLifetime: concurrent create_entities, add_observations,             *)
(* delete_observations and delete_entities calls of the Descope server on  *)
(* one entity, interleaved statement by statement                          *)
(***************************************************************************)

NextLifetime ==
    \/ \E c \in Callers, es \in {<<Entity("a", "T", <<"x">>)>>} :
           OpenSession(c, "descope", "create_entities", es)
    \/ \E c \in Callers, a \in {[entity_name |-> "a", observations |-> <<"x", "x">>]} :
           OpenSession(c, "descope", "add_observations", a)
    \/ \E c \in Callers, d \in {[entity_name |-> "a", observation_content |-> "x"]} :
           OpenSession(c, "descope", "delete_observations", d)
    \/ \E c \in Callers, n \in {<<"a">>} : OpenSession(c, "descope", "delete_entities", n)
    \/ \E c \in Callers, throws \in BOOLEAN : AwaitRun(c, throws)
    \/ \E c \in Callers : CloseSession(c)

SpecLifetime == InitWith({"descope"}) /\ [][NextLifetime]_vars

(***************************************************************************)
(* SpecKeys: keys added to and removed from the registry of                *)
(* Neo4jMCPServerWithApiKey while requests are authenticated               *)
(***************************************************************************)

GivenKeys == {NONE, DefaultApiKey, "key_x"} \cup {generateApiKey(n) : n \in 1..MaxKeys}

NextKeys ==
    \/ \E p \in {<<"mcp:read">>, <<"mcp:read", "mcp:write">>} : addApiKey(p)
    \/ \E k \in GivenKeys \ {NONE} : removeApiKey(k)
    \/ \E k \in GivenKeys : auth(k)

SpecKeys == InitWith({"apikey"}) /\ [][NextKeys]_vars

(***************************************************************************)
(* SpecDeletes: delete_entities of Neo4jMCPServer and of the Descope       *)
(* server, for names that are and are not in a store that holds an entity  *)
(* with an observation                                                     *)
(***************************************************************************)

DeletedEntities == {<<Entity("b", "T", <<"x">>)>>, <<Entity("a", "T", <<>>)>>}

NextDeletes ==
    \/ \E a \in Writers, es \in DeletedEntities : create_entities(a, es, 0)
    \/ \E p \in PermissionLists, es \in DeletedEntities : descope_create_entities(p, es, 0)
    \/ \E a \in Writers, n \in NameBatches, f \in 0..1 : delete_entities(a, n, f)
    \/ \E p \in PermissionLists, n \in NameBatches, f \in 0..1 : descope_delete_entities(p, n, f)

SpecDeletes == InitWith({"oauth", "descope"}) /\ [][NextDeletes]_vars

(***************************************************************************)
(* Properties of the scope gate and of authentication                      *)
(***************************************************************************)

\* C1: each of the three scope checks grants a session a required scope exactly when
\* the required scope or the admin scope is in the session's scope set.
C1_AdminSupersetRule ==
    gate.provider # NONE =>
        (gate.granted <=> (\/ gate.required \in Range(gate.scopes)
                           \/ AdminScopeOf(gate.provider) \in Range(gate.scopes)))

\* a session that holds only admin is granted write by OAuthProvider.hasScope
C1_Witness ==
    /\ gate.provider = "OAuthProvider"
    /\ gate.scopes = <<"admin">>
    /\ gate.required = "write"
    /\ gate.granted

\* C2: every tool is gated by one fixed scope (read for the three queries, write for
\* the six mutations, admin for health_check): an authenticated call with valid
\* arguments is answered "Insufficient permissions: <that scope> scope required"
\* exactly when the session holds neither that scope nor admin, and reaches the
\* client otherwise; a denied health_check carries no health payload.
C2_FixedScopePerTool ==
    LET required == IF last.op \in {"read_graph", "search_nodes", "find_nodes"} THEN "read"
                    ELSE IF last.op = "health_check" THEN "admin" ELSE "write"
        held == required \in Range(last.scopes) \/ "admin" \in Range(last.scopes)
    IN  (last.op # NONE /\ last.outcome \notin {"unauthenticated", "rejected"}) =>
            /\ last.outcome = "denied" <=> ~held
            /\ last.outcome # "denied" => last.outcome \in {"ok", "failed"}
            /\ last.outcome = "denied" =>
                   last.result = <<"Insufficient permissions", required>>

\* a session with exactly read and write is refused health_check
C2_Witness ==
    /\ last.op = "health_check"
    /\ last.scopes = <<"read", "write">>
    /\ last.outcome = "denied"

\* C3: a call refused for a missing credential, an invalid credential or an
\* insufficient scope opens no store session, runs no statement and leaves the
\* graph as it was.
C3_RefusedCallTouchesNoStore ==
    [][last'.outcome \in {"unauthenticated", "denied"} =>
          /\ nodes' = nodes
          /\ rels' = rels
          /\ last'.opened = 0
          /\ last'.statements = 0]_vars

\* a write is denied while the store holds an entity
C3_Witness ==
    /\ last.op \in {"create_entities", "delete_entities"}
    /\ last.outcome = "denied"
    /\ nodes # {}

\* C4 as claimed, for both providers: a Bearer value, when present, is the credential
\* that is validated.
C4_BearerFirstInBothProviders ==
    (/\ authn.provider \in {"DescopeAuthProvider", "ApiKeyProvider"}
     /\ StartsWithBearer(authn.headers.authorization)
     /\ authn.headers.authorization.cred # "")
        => authn.validated = authn.headers.authorization.cred

\* C4 as amended: DescopeAuthProvider validates the Bearer value first, the X-API-Key
\* value only when there is no Bearer value, and answers 401 when both are absent;
\* ApiKeyProvider validates the X-API-Key value first and the Bearer value, as a
\* static key, only when X-API-Key is absent, and answers 401 when both are absent.
C4_CredentialPrecedence ==
    LET h == authn.headers
        bearer == h.authorization.scheme = "Bearer"
        key == h.xApiKey # NONE /\ h.xApiKey # ""
    IN  /\ authn.provider = "DescopeAuthProvider" =>
            /\ bearer => /\ authn.validator = "validateSession"
                         /\ authn.validated = h.authorization.cred
            /\ (~bearer /\ key) => /\ authn.validator = "exchangeAccessKey"
                                   /\ authn.validated = h.xApiKey
            /\ (~bearer /\ ~key) => /\ authn.status = 401
                                    /\ authn.message = "Authentication required"
                                    /\ authn.validator = NONE
        /\ authn.provider = "ApiKeyProvider" =>
            /\ key => authn.validated = h.xApiKey
            /\ (~key /\ bearer /\ h.authorization.cred # "") =>
                   authn.validated = h.authorization.cred
            /\ (~key /\ ~(bearer /\ h.authorization.cred # "")) =>
                   /\ authn.status = 401
                   /\ authn.message = "Missing API key"
                   /\ authn.validator = NONE

\* DescopeAuthProvider refuses a request whose Bearer token is invalid although its
\* X-API-Key is a valid key
C4_Witness ==
    /\ authn.provider = "DescopeAuthProvider"
    /\ authn.headers.authorization = [scheme |-> "Bearer", cred |-> "jwt_bad"]
    /\ authn.headers.xApiKey \in ValidAccessKeys
    /\ authn.status = 401
    /\ authn.validated = "jwt_bad"

(***************************************************************************)
(* Properties of the graph operations                                      *)
(***************************************************************************)

\* C5: the store never holds two entities of one name, and a create_entities call that
\* succeeds leaves, for every name of its batch, exactly one entity whose type is the
\* type of the batch's last item of that name, and leaves the type of every other
\* entity as it was.
C5_OneEntityPerNameLatestType ==
    [][LET label == IF variant = "oauth" THEN "Memory" ELSE "Entity"
           types(ns, n) == {e.props.type : e \in ByName(ns, label, n)}
       IN  /\ \A n \in Names : Cardinality(ByName(nodes', label, n)) <= 1
           /\ (last'.op = "create_entities" /\ last'.outcome = "ok") =>
                  \A n \in Names :
                      LET items == {i \in DOMAIN last'.args : last'.args[i].name = n}
                      IN  IF items = {} THEN types(nodes', n) = types(nodes, n)
                          ELSE LET k == CHOOSE i \in items : \A j \in items : j <= i
                               IN  /\ Cardinality(ByName(nodes', label, n)) = 1
                                   /\ types(nodes', n) = {last'.args[k].type}]_vars

\* an entity created with type T earlier in the batch is one entity of type U
C5_Witness ==
    /\ last.op = "create_entities"
    /\ last.outcome = "ok"
    /\ last.args = <<Entity("a", "T", <<>>), Entity("a", "U", <<>>)>>
    /\ \E n \in nodes : /\ "name" \in DOMAIN n.props
                        /\ n.props.name = "a"
                        /\ n.props.type = "U"

\* C6 as claimed: a create_relations call that succeeds leaves, for each of its
\* relations (s, t, r) whose endpoints exist, exactly one edge from s to t of type r
\* (however often it was created), and a delete_relations call that succeeds leaves
\* no edge from s to t of type r.
C6_CreateTwiceOneEdgeDeleteOnceNone ==
    [][LET label == IF variant = "oauth" THEN "Memory" ELSE "Entity"
           ids(n) == {e.id : e \in ByName(nodes', label, n)}
           edges(s, t, r) == {e \in rels' : e.from \in ids(s) /\ e.to \in ids(t) /\ e.type = r}
           a == last'.args
       IN  /\ (variant = "oauth" /\ last'.op = "create_relations" /\ last'.outcome = "ok") =>
                  \A i \in DOMAIN a :
                      (ids(a[i].source) # {} /\ ids(a[i].target) # {}) =>
                          Cardinality(edges(a[i].source, a[i].target, a[i].relationType)) = 1
           /\ (variant = "oauth" /\ last'.op = "delete_relations" /\ last'.outcome = "ok") =>
                  \A i \in DOMAIN a :
                      edges(a[i].source, a[i].target, a[i].relationType) = {}
           /\ (variant = "descope" /\ last'.op = "create_relations" /\ last'.outcome = "ok") =>
                  \A i \in DOMAIN a :
                      (ids(a[i].from) # {} /\ ids(a[i].to) # {}) =>
                          Cardinality(edges(a[i].from, a[i].to, relType(a[i].relation))) = 1
           /\ (variant = "descope" /\ last'.op = "delete_relations" /\ last'.outcome = "ok"
               /\ "relation_type" \in DOMAIN a) =>
                  edges(a.from, a.to, relType(a.relation_type)) = {}]_vars

\* C7: create_relations leaves the set of nodes as it was, removes no edge, and every
\* edge it adds runs from an entity that had the source name of one of its items to
\* an entity that had that item's target name when the call was made; an item with an
\* absent endpoint adds nothing.
C7_NoEntityCreatedEdgeNeedsBothEndpoints ==
    [][last'.op = "create_relations" =>
          LET label == IF variant = "oauth" THEN "Memory" ELSE "Entity"
              ids(n) == {e.id : e \in ByName(nodes, label, n)}
              a == last'.args
              src(i) == IF variant = "oauth" THEN a[i].source ELSE a[i].from
              tgt(i) == IF variant = "oauth" THEN a[i].target ELSE a[i].to
          IN  /\ nodes' = nodes
              /\ rels \subseteq rels'
              /\ \A r \in rels' \ rels :
                     \E i \in DOMAIN a : r.from \in ids(src(i)) /\ r.to \in ids(tgt(i))]_vars

\* a relation from an existing entity to an absent one was accepted and added nothing
C7_Witness ==
    /\ variant = "oauth"
    /\ last.op = "create_relations"
    /\ last.outcome = "ok"
    /\ last.args = <<Relation("a", "b", "R1")>>
    /\ ByName(nodes, "Memory", "a") # {}
    /\ ByName(nodes, "Memory", "b") = {}
    /\ rels = {}

\* C10 as claimed: a delete_relations call removes, for a pair given without a
\* relation type, every edge from the source to the target, and for a pair given with
\* a type exactly the edges of that type, leaving every other edge in place.
C10_OmittedTypeRemovesAllGivenTypeOnlyThat ==
    [][(last'.op = "delete_relations" /\ last'.outcome \in {"ok", "rejected"}) =>
          LET label == IF variant = "oauth" THEN "Memory" ELSE "Entity"
              ids(n) == {e.id : e \in ByName(nodes, label, n)}
              a == last'.args
          IN  IF variant = "oauth"
              THEN rels \ rels' =
                       {r \in rels : \E i \in DOMAIN a :
                            /\ r.from \in ids(a[i].source)
                            /\ r.to \in ids(a[i].target)
                            /\ "relationType" \in DOMAIN a[i] => r.type = a[i].relationType}
              ELSE rels \ rels' =
                       {r \in rels : /\ r.from \in ids(a.from)
                                     /\ r.to \in ids(a.to)
                                     /\ "relation_type" \in DOMAIN a =>
                                            r.type = relType(a.relation_type)}]_vars

\* C8 as claimed: a delete_entities call for e that succeeds leaves no entity named e,
\* no observation that e owned and no edge that started or ended at e, and a
\* find_nodes for a name that no entity has returns no entity.
C8_DeletedEntityLeavesNothingAndIsNotFound ==
    [][LET label == IF variant = "oauth" THEN "Memory" ELSE "Entity"
           a == last'.args
       IN  /\ (last'.op = "delete_entities" /\ last'.outcome = "ok") =>
                  \A i \in DOMAIN a :
                      LET es == {e.id : e \in ByName(nodes, label, a[i])}
                          os == {r.to : r \in {q \in rels : q.from \in es
                                                            /\ q.type = "HAS_OBSERVATION"}}
                      IN  /\ ByName(nodes', label, a[i]) = {}
                          /\ \A n \in nodes' : n.id \notin es \cup os
                          /\ \A r \in rels' : r.from \notin es /\ r.to \notin es
           /\ (variant = "oauth" /\ last'.op = "find_nodes" /\ last'.outcome = "ok"
               /\ \A i \in DOMAIN a : ByName(nodes, label, a[i]) = {}) =>
                  last'.result.entities = {}
           /\ (variant = "descope" /\ last'.op = "find_nodes" /\ last'.outcome = "ok"
               /\ ByName(nodes, label, a) = {}) =>
                  ~last'.result.success]_vars

\* C9 as claimed: an add_observations call that succeeds makes the observations of the
\* entity the set union of what it had and the contents given, with no string held
\* twice, and returns as added exactly the strings that were not there before.
C9_AddObservationsIsSetUnion ==
    [][(last'.op = "add_observations" /\ last'.outcome = "ok") =>
          IF variant = "oauth"
          THEN LET a == last'.args
                   obs(ns, n) == UNION {Range(CoalesceObservations(e)) : e \in ByName(ns, "Memory", n)}
                   given(n) == UNION {Range(a[i].contents) : i \in {j \in DOMAIN a : a[j].entityName = n}}
               IN  /\ \A e \in ByName(nodes', "Memory", "a") :
                          /\ Range(CoalesceObservations(e)) = obs(nodes, "a") \cup given("a")
                          /\ Len(CoalesceObservations(e)) = Cardinality(Range(CoalesceObservations(e)))
                   /\ (Len(a) = 1 /\ ByName(nodes, "Memory", "a") # {}) =>
                          /\ Len(last'.result) = 1
                          /\ Range(last'.result[1].addedObservations)
                                 = Range(a[1].contents) \ obs(nodes, "a")
                          /\ Len(last'.result[1].addedObservations)
                                 = Cardinality(Range(last'.result[1].addedObservations))
          ELSE LET a == last'.args
                   owned(ns, rs) ==
                       {r.to : r \in {q \in rs : /\ q.type = "HAS_OBSERVATION"
                                                 /\ q.from \in {e.id : e \in ByName(ns, "Entity", a.entity_name)}}}
                   obs(ns, rs) == {NodeById(ns, o).props.content : o \in owned(ns, rs)}
               IN  ByName(nodes, "Entity", a.entity_name) # {} =>
                       /\ obs(nodes', rels') = obs(nodes, rels) \cup Range(a.observations)
                       /\ Cardinality(owned(nodes', rels')) = Cardinality(obs(nodes', rels'))
                       /\ Range(last'.result) = Range(a.observations) \ obs(nodes, rels)
                       /\ Len(last'.result) = Cardinality(Range(last'.result))]_vars

(***************************************************************************)
(* Properties of the permissions of an identity                            *)
(***************************************************************************)

\* C11: extractPermissions never returns an empty list; it returns exactly mcp:read
\* when no direct permission, no role and no tenant permission pushes anything; and
\* mcp:write or mcp:admin is returned only if it is a direct permission, a tenant
\* permission, or pushed by a role writer (for write) or admin (for admin).
C11_NeverEmptyDefaultRead ==
    resolved.called =>
        LET t == resolved.token
            direct == Range(t.permissions.items)
            roles == Range(t.roles.items)
            tenant == UNION {Range(t.tenants.items[i].permissions.items) :
                                 i \in DOMAIN t.tenants.items}
            mapped == roles \cap {"admin", "Admin", "writer", "WRITER", "reader"}
            got == Range(resolved.permissions)
        IN  /\ resolved.permissions # <<>>
            /\ (direct = {} /\ tenant = {} /\ mapped = {}) => resolved.permissions = <<"mcp:read">>
            /\ "mcp:write" \in got =>
                   "mcp:write" \in direct \cup tenant \/ roles \cap {"writer", "WRITER"} # {}
            /\ "mcp:admin" \in got =>
                   "mcp:admin" \in direct \cup tenant \/ roles \cap {"admin", "Admin"} # {}

\* an identity with an empty permission list and a role that is not mapped gets read
C11_Witness ==
    /\ resolved.called
    /\ resolved.token = [permissions |-> Array(<<>>), roles |-> Array(<<"editor">>),
                         tenants |-> Undefined]
    /\ resolved.permissions = <<"mcp:read">>

\* C12 as claimed: every role gives the scopes of the table in which write is an
\* alias of writer and read an alias of reader.
C12_RoleTableWithAliases ==
    resolved.called =>
        \A i \in DOMAIN resolved.token.roles.items :
            LET role == resolved.token.roles.items[i]
                claimed == IF role \in {"admin", "Admin"} THEN {"mcp:admin"}
                           ELSE IF role \in {"writer", "WRITER", "write"}
                           THEN {"mcp:read", "mcp:write"}
                           ELSE IF role \in {"reader", "read"} THEN {"mcp:read"}
                           ELSE {}
            IN  claimed \subseteq Range(resolved.permissions)

\* C12 as amended: the roles of an identity without direct and tenant permissions give
\* the union of {admin} per role admin, {read, write} per role writer and {read} per
\* role reader (compared in lower case); every other role, write and read among them,
\* adds nothing, and when nothing was added the result is the default {read}.
C12_RoleTable ==
    (resolved.called /\ resolved.token.permissions = Undefined
     /\ resolved.token.tenants = Undefined) =>
        LET table(role) == IF role \in {"admin", "Admin"} THEN {"mcp:admin"}
                           ELSE IF role \in {"writer", "WRITER"} THEN {"mcp:read", "mcp:write"}
                           ELSE IF role = "reader" THEN {"mcp:read"}
                           ELSE {}
            given == UNION {table(resolved.token.roles.items[i]) :
                                i \in DOMAIN resolved.token.roles.items}
        IN  Range(resolved.permissions) = IF given = {} THEN {"mcp:read"} ELSE given

\* the role write alone leaves the identity with the default, read
C12_Witness ==
    /\ resolved.called
    /\ resolved.token = [permissions |-> Undefined, roles |-> Array(<<"write">>),
                         tenants |-> Undefined]
    /\ resolved.permissions = <<"mcp:read">>

(***************************************************************************)
(* Properties of relations of several types and of re-created entities     *)
(***************************************************************************)

\* C13 as claimed: after create_relations has created (s, t, r1) and (s, t, r2) with
\* r1 # r2 between existing entities, the store holds an edge from s to t of type r1
\* and another of type r2, and a read of the whole graph returns both relations, each
\* with its own relationType.
C13_TwoTypesCoexist ==
    [][(last'.op = "create_relations" /\ last'.outcome = "ok") =>
          LET a == last'.args
              label == IF variant = "oauth" THEN "Memory" ELSE "Entity"
              ids(n) == {e.id : e \in ByName(nodes', label, n)}
              src(i) == IF variant = "oauth" THEN a[i].source ELSE a[i].from
              tgt(i) == IF variant = "oauth" THEN a[i].target ELSE a[i].to
              typ(i) == IF variant = "oauth" THEN a[i].relationType ELSE relType(a[i].relation)
              edge(i) == {e \in rels' : e.from \in ids(src(i)) /\ e.to \in ids(tgt(i))
                                        /\ e.type = typ(i)}
          IN  \A i, j \in DOMAIN a :
                  (/\ src(i) = src(j) /\ tgt(i) = tgt(j) /\ typ(i) # typ(j)
                   /\ ids(src(i)) # {} /\ ids(tgt(i)) # {}) =>
                      /\ edge(i) # {} /\ edge(j) # {}
                      /\ variant = "oauth" =>
                             {Relation(src(i), tgt(i), typ(i)), Relation(src(j), tgt(j), typ(j))}
                                 \subseteq loadGraph(nodes', rels', MatchAll, 0).result.relations]_vars

\* C14 as claimed: a create_entities call for one entity whose name already exists
\* keeps every observation the entity had, adds the supplied observations that it
\* did not have, and adds no second copy of a supplied observation that it had.
C14_CreateEntitiesKeepsObservations ==
    [][(last'.op = "create_entities" /\ last'.outcome = "ok" /\ Len(last'.args) = 1) =>
          LET entity == last'.args[1]
              supplied == IF "observations" \in DOMAIN entity THEN Range(entity.observations)
                          ELSE {}
              label == IF variant = "oauth" THEN "Memory" ELSE "Entity"
              \* the observation strings of the entity, one element per stored copy
              held(ns, rs) ==
                  IF variant = "oauth"
                  THEN UNION {{<<CoalesceObservations(e)[k], k>> :
                                   k \in DOMAIN CoalesceObservations(e)} :
                              e \in ByName(ns, label, entity.name)}
                  ELSE {<<NodeById(ns, r.to).props.content, r.to>> :
                            r \in {q \in rs : /\ q.type = "HAS_OBSERVATION"
                                              /\ q.from \in {e.id : e \in ByName(ns, label, entity.name)}}}
              strings(h) == {c[1] : c \in h}
              copies(h, o) == Cardinality({c \in h : c[1] = o})
          IN  ByName(nodes, label, entity.name) # {} =>
                  /\ strings(held(nodes, rels)) \subseteq strings(held(nodes', rels'))
                  /\ supplied \subseteq strings(held(nodes', rels'))
                  /\ \A o \in strings(held(nodes, rels)) :
                         copies(held(nodes', rels'), o) = copies(held(nodes, rels), o)]_vars

(***************************************************************************)
(* Properties of batches in which the store fails on one item              *)
(***************************************************************************)

\* C15 as claimed: when the store fails on one relation of a create_relations
\* batch, the relations after it are still applied: each of them whose endpoints
\* both exist has its edge in the store when the call ends.
C15_StoreErrorDoesNotStopBatch ==
    [][(last'.op = "create_relations" /\ last'.outcome = "failed") =>
          LET a == last'.args
              label == IF variant = "oauth" THEN "Memory" ELSE "Entity"
              src(i) == IF variant = "oauth" THEN a[i].source ELSE a[i].from
              tgt(i) == IF variant = "oauth" THEN a[i].target ELSE a[i].to
              typ(i) == IF variant = "oauth" THEN RelTypeToken(a[i].relationType)
                        ELSE relType(a[i].relation)
          IN  \A i \in DOMAIN a :
                  (i > last'.statements) =>
                      \A f \in ByName(nodes', label, src(i)), t \in ByName(nodes', label, tgt(i)) :
                          \E e \in rels' : e.from = f.id /\ e.to = t.id /\ e.type = typ(i)]_vars

\* C16 as claimed: when create_entities fails on one entity of its list, the
\* entities of the list before that one stay in the store.  In Neo4jMCPServer the
\* failing entity is the row failAt of the one statement; in the two other servers
\* it is the entity whose statement failAt belongs to.
C16_EarlierEntitiesKept ==
    [][\A es \in EntityBatches : \A f \in 1..(MaxBatch + 1) :
          LET failing == IF variant = "oauth" THEN f
                         ELSE IF f \in DOMAIN EntityStatements(es, 1)
                         THEN Cardinality({k \in 1..f : EntityStatements(es, 1)[k].kind = "merge"})
                         ELSE 0
              label == IF variant = "oauth" THEN "Memory" ELSE "Entity"
              called == \/ \E a \in Writers : create_entities(a, es, f)
                        \/ \E k \in Keys : apikey_create_entities(k, es, f)
                        \/ \E p \in PermissionLists : descope_create_entities(p, es, f)
          IN  (called /\ last'.outcome = "failed") =>
                  \A i \in 1..(failing - 1) : ByName(nodes', label, es[i].name) # {}]_vars

\* C17 as claimed: a create_relations call that completes returns a list that holds
\* an entry for an input relation exactly when the source and the target of that
\* relation both existed.
C17_ReturnedListIsTheCreatedRelations ==
    [][(last'.op = "create_relations" /\ last'.outcome = "ok") =>
          LET a == last'.args
              r == last'.result
              existed(i) ==
                  IF variant = "oauth"
                  THEN ByName(nodes, "Memory", a[i].source) # {} /\ ByName(nodes, "Memory", a[i].target) # {}
                  ELSE ByName(nodes, "Entity", a[i].from) # {} /\ ByName(nodes, "Entity", a[i].to) # {}
              reported(i) ==
                  IF variant = "oauth"
                  THEN \E k \in DOMAIN r : r[k] = a[i]
                  ELSE \E k \in DOMAIN r : /\ r[k].from = a[i].from
                                           /\ r[k].to = a[i].to
                                           /\ r[k].relation = relType(a[i].relation)
                                           /\ r[k].created
          IN  \A i \in DOMAIN a : reported(i) <=> existed(i)]_vars

(***************************************************************************)
(* Properties of health_check                                              *)
(***************************************************************************)

\* C18: health_check called with the admin scope never throws: in Neo4jMCPServer it
\* returns the status with neo4j.connected equal to what verifyConnection found,
\* false when the store is unreachable; in the Descope server it returns the
\* unhealthy result when a probe statement fails and the healthy one otherwise.
C18_HealthCheckReportsAndNeverThrows ==
    [][/\ \A a \in HealthCallers, reachable \in BOOLEAN :
              (/\ health_check(a, reachable)
               /\ hasScope(oauthAuthenticateRequest(a).session.scopes, "admin")) =>
                  /\ last'.outcome = "ok"
                  /\ last'.result.connected = reachable
                  /\ verifyConnection(nodes, rels, reachable).outcome = "ok"
                  /\ verifyConnection(nodes, rels, reachable).result = reachable
       /\ \A p \in HealthPermissionLists, f \in 0..2 :
              (descope_health_check(p, f) /\ descopeHasPermission(p, "mcp:admin")) =>
                  /\ last'.outcome = "ok"
                  /\ last'.result.status = IF f = 0 THEN "healthy" ELSE "unhealthy"
                  /\ last'.result.success = (f = 0)
                  /\ nodes' = nodes /\ rels' = rels]_vars

C18_Witness ==
    /\ variant = "oauth"
    /\ last.op = "health_check"
    /\ last.outcome = "ok"
    /\ hasScope(last.scopes, "admin")
    /\ ~last.result.connected

(***************************************************************************)
(* Properties of store sessions                                            *)
(***************************************************************************)

\* C19: the open store sessions are exactly those of the calls in flight: a session
\* is closed when its call ends, by return or by throw, so when no call is in
\* flight, whatever the interleaving was, no session is open.
C19_SessionsClosedWhenCallsEnd ==
    /\ sessions = InFlight
    /\ InFlight = {} => Cardinality(sessions) = 0

C19_Witness ==
    /\ InFlight = {}
    /\ sessions = {}
    /\ last.op \in ClientMethods \cup {"create_entities"}
    /\ last.outcome = "failed"
    /\ last.opened = 1
    /\ last.statements = 2

(***************************************************************************)
(* Properties of the responses to invalid credentials                      *)
(***************************************************************************)

\* C20 as claimed: two requests to the same provider whose credential is present
\* and fails verification receive the same response, whichever verification failed.
C20_InvalidCredentialResponseIsUniform ==
    [][(/\ authn.provider = authn'.provider
        /\ authn.status = 401 /\ authn.validator # NONE
        /\ authn'.status = 401 /\ authn'.validator # NONE) =>
           authn'.message = authn.message]_vars

(***************************************************************************)
(* Properties of search_nodes and of deletions that match nothing          *)
(***************************************************************************)

\* C21 as claimed: a search_nodes call that returns, and whose query is a word of
\* an observation of an entity and a word of no entity's name or type, returns
\* that entity.
C21_SearchFindsOwnerOfObservation ==
    [][(last'.op = "search_nodes" /\ last'.outcome = "ok") =>
          LET words == Analyze(last'.args[1])
              label == IF variant = "oauth" THEN "Memory" ELSE "Entity"
              entities == {n \in nodes : label \in n.labels}
              observed(e) ==
                  IF variant = "oauth"
                  THEN UNION {Analyze(CoalesceObservations(e)[k]) : k \in DOMAIN CoalesceObservations(e)}
                  ELSE UNION {Analyze(NodeById(nodes, r.to).props.content) :
                                  r \in {q \in rels : q.from = e.id /\ q.type = "HAS_OBSERVATION"}}
              named == UNION {Analyze(e.props.name) \cup Analyze(e.props.type) : e \in entities}
              found == IF variant = "oauth" THEN {r.name : r \in last'.result.entities}
                       ELSE {r.name : r \in last'.result}
          IN  \A e \in entities :
                  (observed(e) \cap words # {} /\ named \cap words = {}) => e.props.name \in found]_vars

\* C22: a delete_entities call that reaches the store and whose names match no
\* entity leaves the nodes and the relationships of the store as they were, and
\* unless the store itself fails it returns without error.
C22_DeleteOfNoEntityIsNoOp ==
    [][(last'.op = "delete_entities" /\ last'.outcome \in {"ok", "failed"}) =>
          LET n == last'.args
              label == IF variant = "oauth" THEN "Memory" ELSE "Entity"
              eff == IF variant = "oauth" THEN deleteEntities(nodes, rels, n, 0)
                     ELSE descopeDeleteEntities(nodes, rels, n, 0)
          IN  (\A i \in DOMAIN n : ByName(nodes, label, n[i]) = {}) =>
                  /\ nodes' = nodes
                  /\ rels' = rels
                  /\ eff.outcome = "ok"
                  /\ eff.nodes = nodes
                  /\ eff.rels = rels]_vars

C22_Witness ==
    /\ variant = "descope"
    /\ last.op = "delete_entities"
    /\ last.outcome = "ok"
    /\ \A k \in DOMAIN last.result : ~last.result[k].deleted
    /\ \E o \in nodes : "Observation" \in o.labels
    /\ rels # {}

(***************************************************************************)
(* Properties of delete_observations                                       *)
(***************************************************************************)

\* C23 as claimed: a delete_observations call removes from the named entity exactly
\* the observations whose text is the given content, and changes no other
\* observation: it does so, without error, whenever the store does not fail.
C23_DeletesExactlyTheGivenObservations ==
    [][(last'.op = "delete_observations" /\ last'.outcome \in {"ok", "failed"}) =>
          LET a == last'.args
              \* Neo4jMCPServer: a list of {entityName, observations}
              given(n) == UNION {Range(a[i].observations) :
                                     i \in {k \in DOMAIN a : a[k].entityName = n.props.name}}
              kept(n) == SelectSeq(CoalesceObservations(n), LAMBDA o : o \notin given(n))
              memory == {IF "Memory" \in n.labels /\ given(n) # {}
                         THEN [n EXCEPT !.props = Override(@, [observations |-> kept(n)])]
                         ELSE n : n \in nodes}
              \* Descope server: {entity_name, observation_content}
              gone == {o.id : o \in {m \in nodes :
                          /\ "Observation" \in m.labels
                          /\ m.props.content = a.observation_content
                          /\ \E r \in rels : /\ r.type = "HAS_OBSERVATION"
                                             /\ r.to = m.id
                                             /\ r.from \in {e.id : e \in ByName(nodes, "Entity", a.entity_name)}}}
              eff == IF variant = "oauth" THEN deleteObservations(nodes, rels, a, 0)
                     ELSE descopeDeleteObservations(nodes, rels, a, 0)
              expectedNodes == IF variant = "oauth" THEN memory
                               ELSE {n \in nodes : n.id \notin gone}
              expectedRels == IF variant = "oauth" THEN rels
                              ELSE {r \in rels : r.to \notin gone}
          IN  /\ eff.outcome = "ok"
              /\ eff.nodes = expectedNodes
              /\ eff.rels = expectedRels
              /\ last'.outcome = "ok" => (nodes' = expectedNodes /\ rels' = expectedRels)]_vars

(***************************************************************************)
(* Properties of the stages of a call                                      *)
(***************************************************************************)

\* C24: a call of an authenticated caller ends in exactly one of ok (Responded),
\* rejected, denied and failed.  It is rejected exactly when its arguments are
\* malformed, whatever the caller's scopes are (validation comes before the
\* authorization check); it is denied exactly when its arguments are well-formed
\* and the scope is missing; a rejected or denied call opens no store session, runs
\* no statement and leaves the store as it was (both checks come before the first
\* store access).
C24_ValidationThenAuthorizationThenStore ==
    [][(last'.op # NONE /\ last'.outcome # "unauthenticated") =>
          LET c == last'
              valid == IF variant = "oauth" THEN ValidArgs(c.op, c.args)
                       ELSE ValidItems(c.args, {"name", "type"})
              authorized ==
                  CASE variant = "oauth"   -> hasScope(c.scopes, RequiredScope(c.op))
                    [] variant = "descope" -> descopeHasPermission(c.scopes, "mcp:write")
                    [] OTHER               -> apiKeyHasPermission(c.scopes, "mcp:write")
          IN  /\ c.outcome \in {"ok", "rejected", "denied", "failed"}
              /\ (c.outcome = "rejected") <=> ~valid
              /\ (c.outcome = "denied") <=> (valid /\ ~authorized)
              /\ c.outcome \in {"rejected", "denied"} =>
                     /\ nodes' = nodes
                     /\ rels' = rels
                     /\ c.opened = 0
                     /\ c.statements = 0
              /\ c.outcome = "failed" => c.opened = 1]_vars

\* malformed arguments from a caller without the write scope, on a store that holds
\* an entity: the call is rejected, not denied
C24_Witness ==
    /\ variant = "oauth"
    /\ last.op = "create_entities"
    /\ last.outcome = "rejected"
    /\ ~hasScope(last.scopes, "write")
    /\ nodes # {}

(***************************************************************************)
(* Properties of the OAuth states                                          *)
(***************************************************************************)

\* C25: a code exchange is sent only for a state that is in the map and is not
\* older than 15 minutes; a completeOAuthFlow call that finds its state older than
\* that ends with the expiry error, sends no exchange and leaves the map without
\* the state; and cleanupExpiredStates leaves in the map exactly the states that
\* are not older than 15 minutes.
C25_ExpiredStatesRejectedAndSwept ==
    [][/\ \A c \in Callers :
              flows[c].pc = "idle" /\ flows'[c].pc = "exchange" =>
                  \E s \in oauthStates : /\ s.state = flows'[c].state
                                          /\ s.codeVerifier = flows'[c].codeVerifier
                                          /\ now - s.timestamp <= StateLifetime
       /\ \A c \in Callers, st \in 1..MaxStates :
              (/\ \E s \in oauthStates : s.state = st /\ now - s.timestamp > StateLifetime
               /\ CompleteLookup(c, st)) =>
                  /\ flows'[c].outcome = "OAuth state expired"
                  /\ exchanged' = exchanged
                  /\ \A s \in oauthStates' : s.state # st
       /\ oauthStates' # oauthStates /\ CleanupExpiredStates =>
              oauthStates' = {s \in oauthStates : now - s.timestamp <= StateLifetime}]_vars

\* a call found its state expired, and the map holds another state that is exactly
\* 15 minutes old
C25_Witness ==
    /\ \E c \in Callers : flows[c].outcome = "OAuth state expired"
    /\ \E s \in oauthStates : now - s.timestamp = StateLifetime

\* C26: an OAuth state is used once: whatever the interleaving of the
\* completeOAuthFlow calls, a code exchange is sent with a state's verifier only
\* if none was sent for that state before, and a call that does not send one ends
\* with the invalid-or-expired-state error.
C26_StateIsSingleUse ==
    [][\A c \in Callers :
           flows[c].pc = "idle" /\ flows'[c] # flows[c] =>
               IF flows'[c].pc = "exchange"
               THEN flows'[c].state \notin exchanged
               ELSE flows'[c].outcome \in {"Invalid or expired OAuth state",
                                           "OAuth state expired"}]_vars

(***************************************************************************)
(* Properties of the relationship type in the statement text               *)
(***************************************************************************)

\* C27: whatever relationType a create_relations or delete_relations call is
\* given, the relationship type its statement text names consists of upper-case
\* letters, digits and underscores only.
C27_InterpolatedTypeIsSanitized ==
    [][last'.op \in {"create_relations", "delete_relations"} /\ last'.outcome \in {"ok", "failed"} =>
           LET a == last'.args
               given == IF variant = "oauth" THEN {a[i].relationType : i \in DOMAIN a}
                        ELSE IF last'.op = "create_relations" THEN {a[i].relation : i \in DOMAIN a}
                        ELSE {a.relation_type}
               token(t) == IF variant = "oauth" THEN RelTypeToken(t) ELSE relType(t)
           IN  \A t \in given : \A ch \in Range(Spell(token(t))) :
                   ch \in Range(UpperCaseLetters) \cup Digits \cup {"_"}]_vars

(***************************************************************************)
(* Properties of the observations' lifetime                                *)
(***************************************************************************)

\* C28: with every statement atomic, whatever the interleaving of the statements
\* of concurrent create_entities, add_observations, delete_observations and
\* delete_entities calls, every Observation node has exactly one HAS_OBSERVATION
\* relationship, and it comes from an Entity node of the store.
C28_ObservationHasOneLiveOwner ==
    \A o \in nodes :
        "Observation" \in o.labels =>
            /\ Cardinality({r \in rels : r.to = o.id}) = 1
            /\ \A r \in rels :
                   r.to = o.id => /\ r.type = "HAS_OBSERVATION"
                                  /\ \E e \in nodes : e.id = r.from /\ "Entity" \in e.labels

\* an add_observations call that has created an observation and has one more to
\* create, while a delete_entities call of the same entity is about to run its
\* statement
C28_Witness ==
    /\ \E c, d \in Callers :
           /\ inflight[c].op = "add_observations" /\ inflight[c].pc = "try"
           /\ inflight[c].next = 2
           /\ inflight[d].op = "delete_entities" /\ inflight[d].pc = "try"
    /\ \E o \in nodes : "Observation" \in o.labels

(***************************************************************************)
(* Properties of the key registry                                          *)
(***************************************************************************)

\* C29: in every interleaving of addApiKey, removeApiKey and authentications, once
\* removeApiKey(k) has returned true every authentication with k is answered 401
\* 'Invalid API key'; a removal leaves every other key registered with its
\* permissions, and a registered key authenticates with them.
C29_RemovedKeyStaysRejected ==
    [][/\ last'.op = "auth" =>
              LET k == last'.args
                  response == last'.result
              IN  /\ k \in removed =>
                         response.status = 401 /\ response.message = "Invalid API key"
                  /\ k \in DOMAIN validApiKeys =>
                         response.status = 200 /\ response.session.scopes = validApiKeys[k]
       /\ last'.op = "removeApiKey" /\ last'.result = TRUE =>
              /\ last'.args \in removed'
              /\ \A j \in DOMAIN validApiKeys \ {last'.args} :
                     j \in DOMAIN validApiKeys' /\ validApiKeys'[j] = validApiKeys[j]
       /\ removed' \cap DOMAIN validApiKeys' = {}]_vars

\* a key that was added and then removed is rejected while another added key and
\* the default key are registered
C29_Witness ==
    /\ last.op = "auth"
    /\ last.args = generateApiKey(1)
    /\ last.args \in removed
    /\ last.result.status = 401
    /\ {DefaultApiKey, generateApiKey(2)} \subseteq DOMAIN validApiKeys

(***************************************************************************)
(* Properties of the direction of delete_relations                         *)
(***************************************************************************)

\* C30: a delete_relations call, with or without a relation type, removes only
\* edges that go from an entity named as source to an entity named as target of
\* one of its pairs: every edge in the opposite direction or with another endpoint
\* is still there, no edge is added and no node changes.
C30_OnlySourceToTargetEdgesRemoved ==
    [][last'.op = "delete_relations" =>
          LET label == IF variant = "oauth" THEN "Memory" ELSE "Entity"
              ids(n) == {e.id : e \in ByName(nodes, label, n)}
              a == last'.args
              pairs == IF variant = "oauth"
                       THEN {<<a[i].source, a[i].target>> : i \in DOMAIN a}
                       ELSE {<<a.from, a.to>>}
          IN  /\ nodes' = nodes
              /\ rels' \subseteq rels
              /\ \A r \in rels \ rels' :
                     \E p \in pairs : r.from \in ids(p[1]) /\ r.to \in ids(p[2])]_vars

\* a delete_relations call without a relation type has removed the edge from a to b,
\* and the edge from b to a is still there
C30_Witness ==
    /\ variant = "descope"
    /\ last.op = "delete_relations"
    /\ last.outcome = "ok"
    /\ last.args = [from |-> "a", to |-> "b"]
    /\ last.result.relations_deleted >= 1
    /\ \E r \in rels, x, y \in nodes :
           /\ x.props.name = "a" /\ y.props.name = "b"
           /\ r.from = y.id /\ r.to = x.id

====
